---------------------------- MODULE Spec2Model ----------------------------
(***************************************************************************)
(* Follow engine of the terminal log viewer (src/log_tui.py, LogModel).    *)
(* One LogModel is driven by the UI thread (load, start_follow,            *)
(* stop_follow, toggle_follow, reload_tail) while the follow threads it    *)
(* starts run concurrently with it.  Subprocesses and the followed file    *)
(* are the environment.  Time is abstracted: a bounded wait (join with a   *)
(* timeout, the grace loop of stop_follow) may give up whenever the thing  *)
(* it waits for is blocked in I/O.                                         *)
(***************************************************************************)
EXTENDS Integers, Sequences, FiniteSets, TLC

(* ------------------------------ bounds -------------------------------- *)
\* deque(maxlen=MAX_LINES): the capacity, scaled down so that eviction happens
MAX_LINES == 2
\* DEFAULT_TAIL, scaled down: lines a snapshot load asks for
DEFAULT_TAIL == 1
\* follow threads ever started (start_follow calls that pass the guard)
MaxThreads == 2
\* lines one follow subprocess writes to its stdout
MaxProcLines == 1
\* lines ever written to the followed file
MaxFileLines == 2
\* operations the UI thread calls on the model
MaxCalls == 2
\* lines docker ps prints (container resolution)
MaxNames == 2
\* services of the viewer (SERVICES)
NumServices == 3
MaxSanLen == 5
AVG_LINE_LEN == 1
MaxFileBytes == 5
MaxTailN == 2
MaxLineLen == 3
MaxBufLines == 2
MaxFilterCalls == 2

Threads == 1..MaxThreads
None == 0

VARIABLES
  remote,          \* is_remote(): LOG_TUI_SSH is set (fixed per run)
  follow_enabled,  \* LogModel.follow_enabled
  stop_event,      \* LogModel._stop_event.is_set()
  follow_thread,   \* LogModel._follow_thread (None or a thread)
  docker_proc,     \* LogModel._docker_proc (None or the process of a thread)
  source_type,     \* LogModel._source_type
  source_id,       \* LogModel._source_id
  lines,           \* LogModel.lines, the deque
  hist,            \* history: the last MAX_LINES+1 lines appended since the last clear
  mpc,             \* UI thread: position
  mstack,          \* UI thread: return positions of the calls in progress
  was_following,   \* reload_tail's local
  merr,            \* an exception left a LogModel method on the UI thread
  nCalls,          \* operations the UI thread has called so far
  tpc,             \* follow thread: position
  tkind,           \* follow thread: "docker", "file" (local) or "rfile" (tail -F over ssh)
  lproc,           \* follow thread: its local `proc`
  last_pos,        \* file follow: last_pos (= position of file_obj), in lines
  fopen,           \* file follow: file_obj is open
  procst,          \* subprocess of a thread: "none", "running", "termed", "exited"
  pout,            \* subprocess: lines written to stdout and not read yet
  pseq,            \* subprocess: lines written to stdout so far
  file,            \* the fallback file: the ids of its lines
  nextId,          \* id of the next line written to the file
  truncMark,       \* lines with id >= truncMark were written after the last truncation
  nSpawn,          \* follow subprocesses spawned so far
  stale,           \* threads that were alive when load() last cleared the buffer
  idleStop,        \* no follow thread was alive when stop_follow was last called
  read_to,         \* file follow: id of the newest line it has read, or found at its first open
  stopRet,         \* threads started before a stop_follow that has returned
  running,         \* container resolution: the lines docker ps --format {{.Names}} prints
  ps_ok,           \* container resolution: docker ps ends with exit code 0
  preferred,       \* container resolution: LogModel.docker_service
  friendly,        \* container resolution: LogModel.name
  exact_ok,        \* container resolution: docker logs of the preferred identifier succeeds
  cand_ok,         \* container resolution: docker logs of the discovered candidate succeeds
  candidate,       \* result of _best_match_container
  tail_resolved,   \* docker_logs_tail: the container it read (third component of its result)
  tail_err,        \* docker_logs_tail: it returned an error message
  container,       \* _follow_docker_thread: the container it follows
  applied,         \* container resolution: the functions applied to the inputs so far
  active_key,      \* LogTUI.active_key
  models,          \* LogTUI.models: follow_enabled and _follow_thread of every LogModel
  upc,             \* LogTUI: position of the UI thread
  ukey,            \* LogTUI: the key argument of switch_service / the model shutdown is at
  u_was,           \* LogTUI.reload_tail: was_following
  cm_was,          \* LogTUI.container_menu: follow was enabled when Enter was pressed
  probe_ok,        \* load: is_docker_available() answered True
  json_ok,         \* load: the container's JSON log file was found and read
  source_ref,      \* load: (source_type, source_id) each run of load() settled on
  san_in,          \* sanitize_line: its argument s, as code points
  san_out,         \* sanitize_line(s)
  san_twice,       \* sanitize_line(sanitize_line(s))
  san_pc,          \* sanitize_line: "idle", applied "once", applied "twice"
  tail_bytes,      \* tail_lines: the bytes of the file at path
  tail_n,          \* tail_lines: its argument n
  tail_out,        \* tail_lines: the list of lines it returned
  tail_done,       \* tail_lines: it has returned
  cmd_out,         \* snapshot: what docker logs --tail n / tail -n n printed
  snap_out,        \* snapshot: the lines docker_logs_tail / tail_lines returned for it
  snap_kind,       \* snapshot: "none", or the function applied: "docker", "ssh"
  text_lines,      \* filtering: LogModel.lines, every line a sequence of characters
  level_filter,    \* LogModel.level_filter
  text_filter,     \* LogModel.text_filter
  filtered,        \* filtered_lines: the list it returned last
  fcalls,          \* filtered_lines: the calls made so far
  lock_owner,      \* LogModel.lock: "free", or the thread inside a with self.lock block
  ui_pc,           \* the UI thread's position in filtered_lines / load
  fw_pc,           \* the follow thread's position in its read loop
  ui_data,         \* filtered_lines / load: the local list data
  fw_line,         \* follow thread: the line readline returned
  web_sent,        \* log_web /stream: the lines written to the client as events
  web_done,        \* log_web /stream: the lines of the source have been gone through
  TOKEN,           \* log_web.TOKEN, from LOG_WEB_TOKEN ("" when unset)
  DB_TOKEN,        \* log_web.DB_TOKEN, from LOG_WEB_DB_TOKEN ("" when unset)
  DB_TABLE_WHITELIST, \* log_web.DB_TABLE_WHITELIST is not empty
  db_mode,         \* what _db_connect finds configured: "none", "rds" or "docker"
  req_path,        \* path of the last request do_GET handled ("none" before the first)
  req_token,       \* its token parameter ("" when it has none)
  resp_status,     \* the status it was answered with (0: no response was sent)
  docker_ran,      \* handling it started a docker command
  db_ran,          \* handling it executed a database query
  s_pc,            \* /stream handler: "idle", "loop", "finally", "returned"
  sproc,           \* its docker logs process: "none", "running", "exited", "terminated"
  s_client,        \* its client is still connected
  s_pipe,          \* lines the process has written that the handler has not read
  s_werr           \* write_event has swallowed a failed write of this request

svcVars  == <<follow_enabled, stop_event, follow_thread, docker_proc, source_type, source_id>>
bufVars  == <<lines, hist>>
mainVars == <<mpc, mstack, was_following, merr, nCalls>>
thrVars  == <<tpc, tkind, lproc, last_pos, fopen>>
procVars == <<procst, pout, pseq>>
fileVars == <<file, nextId, truncMark>>
ghostVars == <<nSpawn, stale, idleStop, stopRet, read_to>>
matchVars == <<running, ps_ok, preferred, friendly, exact_ok, cand_ok, candidate,
               tail_resolved, tail_err, container, applied>>
tuiVars == <<active_key, models, upc, ukey, u_was, cm_was>>
resolveVars == <<probe_ok, json_ok, source_ref>>
sanVars == <<san_in, san_out, san_twice, san_pc>>
tailVars == <<tail_bytes, tail_n, tail_out, tail_done, cmd_out, snap_out, snap_kind>>
lockVars == <<lock_owner, ui_pc, fw_pc, ui_data, fw_line>>
cfgVars == <<TOKEN, DB_TOKEN, DB_TABLE_WHITELIST, db_mode>>
reqVars == <<req_path, req_token, resp_status, docker_ran, db_ran>>
streamVars == <<s_pc, sproc, s_client, s_pipe, s_werr>>
serverVars == <<cfgVars, reqVars, streamVars>>
webVars == <<web_sent, web_done, serverVars>>
filterVars == <<text_lines, level_filter, text_filter, filtered, fcalls, lockVars, webVars>>
textVars == <<resolveVars, sanVars, tailVars, filterVars>>
auxVars == <<matchVars, tuiVars, textVars>>
vars == <<remote, auxVars, svcVars, bufVars, mainVars, thrVars, procVars, fileVars, ghostVars>>

(* ------------------------------ the buffer ---------------------------- *)
\* a line of the buffer: what it is (k), who appended it (by: 0 is the UI
\* thread) and, for a line read from a source, its number there (n)
Line(k, by, n) == [k |-> k, by |-> by, n |-> n]

LastN(s, n) == IF Len(s) <= n THEN s ELSE SubSeq(s, Len(s) - n + 1, Len(s))

\* a deque that drops the line it is given once it is full
DequeAppendDropNewest(buf, x) == IF Len(buf) >= MAX_LINES THEN buf ELSE Append(buf, x)

\* a deque that takes the new line at its head
DequeAppendLeft(buf, x) ==
  IF Len(buf) >= MAX_LINES THEN <<x>> \o SubSeq(buf, 1, Len(buf) - 1) ELSE <<x>> \o buf

\* deque(maxlen=MAX_LINES).append
DequeAppend(buf, x) ==
  IF Len(buf) >= MAX_LINES THEN Append(Tail(buf), x) ELSE Append(buf, x)

RECURSIVE DequeExtend(_, _)
\* for ln in data: self.lines.append(ln)
DequeExtend(buf, data) ==
  IF data = <<>> THEN buf ELSE DequeExtend(DequeAppend(buf, Head(data)), Tail(data))

\* with self.lock: self.lines.append(x)   (and the history of it)
Push(x) ==
  /\ lines' = DequeAppend(lines, x)
  /\ hist' = LastN(Append(hist, x), MAX_LINES + 1)

PushAll(data) ==
  /\ lines' = DequeExtend(lines, data)
  /\ hist' = LastN(hist \o data, MAX_LINES + 1)

\* LogModel._clear_lines
ClearLines ==
  /\ lines' = <<>>
  /\ hist' = <<>>

\* (f"{REMOTE_SSH}:" if is_remote() else "") + x
Prefixed(x) == IF remote THEN <<"ssh", x>> ELSE <<"", x>>

(* ------------------------------ threads ------------------------------- *)
Alive(t) == tpc[t] \notin {"unborn", "done", "crashed"}

\* stdout.readline() has nothing to return yet
ReadBlocks(t) ==
  /\ tpc[t] \in {"d_read", "r_read"}
  /\ lproc[t] # None
  /\ pout[lproc[t]] = 0
  /\ procst[lproc[t]] \in {"running", "termed"}

\* the thread sits in a call that can outlast a bounded wait: the docker ps of
\* _best_match_container (its own timeout is 10 s) or a blocked readline
Blocked(t) == tpc[t] = "d_resolve" \/ ReadBlocks(t)

\* None where a container name is expected (a container name is never empty)
NoName == <<>>

\* no container resolution is under way
NoResolution ==
  /\ running = <<>>
  /\ ps_ok = FALSE
  /\ preferred = <<>>
  /\ friendly = <<>>
  /\ exact_ok = FALSE
  /\ cand_ok = FALSE
  /\ candidate = NoName
  /\ tail_resolved = NoName
  /\ tail_err = FALSE
  /\ container = NoName
  /\ applied = {}

Keys == 1..NumServices

\* follow_enabled and _follow_thread of a LogModel ("none": None, "alive": a
\* running thread, "ended": a thread that has returned), and whether a follow
\* thread whose handle was dropped is still running
ModelState(fe, ft, orph) == [follow_enabled |-> fe, follow_thread |-> ft, orphan |-> orph]

\* the viewer is not running
NoTui ==
  /\ active_key = 1
  /\ models = [k \in Keys |-> ModelState(FALSE, "none", FALSE)]
  /\ upc = "off"
  /\ ukey = 1
  /\ u_was = FALSE
  /\ cm_was = FALSE

\* load() has not settled on a source
NoRef == [type |-> "unknown", id |-> <<>>]

Runs == 1..2

\* no run of load()'s source resolution is under way
NoLoadRun ==
  /\ probe_ok = FALSE
  /\ json_ok = FALSE
  /\ source_ref = [i \in Runs |-> NoRef]

\* sanitize_line is not being applied
NoSanitize ==
  /\ san_in = <<>>
  /\ san_out = <<>>
  /\ san_twice = <<>>
  /\ san_pc = "idle"

\* tail_lines is not being applied
NoTail ==
  /\ tail_bytes = <<>>
  /\ tail_n = 0
  /\ tail_out = <<>>
  /\ tail_done = FALSE
  /\ cmd_out = <<>>
  /\ snap_out = <<>>
  /\ snap_kind = "none"

\* the level that lets every line through
ANY == <<"A", "N", "Y">>

\* the web server is not running
NoRequest ==
  /\ req_path = "none"
  /\ req_token = ""
  /\ resp_status = 0
  /\ docker_ran = FALSE
  /\ db_ran = FALSE

NoStream ==
  /\ s_pc = "idle"
  /\ sproc = "none"
  /\ s_client = FALSE
  /\ s_pipe = <<>>
  /\ s_werr = FALSE

NoServer ==
  /\ TOKEN = ""
  /\ DB_TOKEN = ""
  /\ DB_TABLE_WHITELIST = FALSE
  /\ db_mode = "none"
  /\ NoRequest
  /\ NoStream

NoWeb ==
  /\ web_sent = <<>>
  /\ web_done = FALSE
  /\ NoServer

\* filtered_lines is not being applied
NoFilter ==
  /\ text_lines = <<>>
  /\ level_filter = ANY
  /\ text_filter = <<>>
  /\ filtered = <<>>
  /\ fcalls = 0
  /\ lock_owner = "free"
  /\ ui_pc = "idle"
  /\ fw_pc = "off"
  /\ ui_data = <<>>
  /\ fw_line = <<>>
  /\ NoWeb

\* no text function is being applied
NoText ==
  /\ NoLoadRun
  /\ NoSanitize
  /\ NoTail
  /\ NoFilter

\* the state after LogModel.__init__
ModelInit ==
  /\ remote \in BOOLEAN
  /\ follow_enabled = FALSE
  /\ stop_event = FALSE
  /\ follow_thread = None
  /\ docker_proc = None
  /\ source_type = "unknown"
  /\ source_id = ""
  /\ lines = <<>>
  /\ hist = <<>>
  /\ mpc = "idle"
  /\ mstack = <<>>
  /\ was_following = FALSE
  /\ merr = FALSE
  /\ nCalls = 0
  /\ tpc = [t \in Threads |-> "unborn"]
  /\ tkind = [t \in Threads |-> "none"]
  /\ lproc = [t \in Threads |-> None]
  /\ last_pos = [t \in Threads |-> 0]
  /\ fopen = [t \in Threads |-> FALSE]
  /\ procst = [t \in Threads |-> "none"]
  /\ pout = [t \in Threads |-> 0]
  /\ pseq = [t \in Threads |-> 0]
  /\ file = <<>>
  /\ nextId = 1
  /\ truncMark = 1
  /\ nSpawn = 0
  /\ stale = {}
  /\ idleStop = FALSE
  /\ read_to = [t \in Threads |-> 0]
  /\ stopRet = {}

Init ==
  /\ ModelInit
  /\ NoResolution
  /\ NoTui
  /\ NoText

(* --------------------------- the UI thread ---------------------------- *)
Call(entry, ret) ==
  /\ mpc' = entry
  /\ mstack' = <<ret>> \o mstack

Return ==
  /\ mpc' = Head(mstack)
  /\ mstack' = Tail(mstack)

\* an exception leaves the method and every caller: the viewer ends
Raise ==
  /\ mpc' = "raised"
  /\ mstack' = <<>>
  /\ merr' = TRUE

\* the UI thread calls one operation of the model
UICall ==
  /\ mpc = "idle"
  /\ nCalls < MaxCalls
  /\ nCalls' = nCalls + 1
  /\ \E op \in {"load", "start_follow", "stop_follow", "toggle_follow", "reload_tail"} :
       Call(op, "idle")
  /\ UNCHANGED <<remote, auxVars, svcVars, bufVars, was_following, merr, thrVars, procVars,
                 fileVars, ghostVars>>

\* LogModel.toggle_follow
ToggleFollow ==
  /\ mpc = "toggle_follow"
  /\ mpc' = IF follow_enabled THEN "stop_follow" ELSE "start_follow"
  /\ UNCHANGED <<remote, auxVars, svcVars, bufVars, mstack, was_following, merr, nCalls, thrVars,
                 procVars, fileVars, ghostVars>>

(* ----------------------------- stop_follow ---------------------------- *)
ProcAlive(p) == procst[p] \in {"running", "termed"}

\* a stop_follow that sets the stop signal and leaves follow_enabled as it is
StopFollowOnlySignals ==
  /\ mpc = "stop_follow"
  /\ stop_event' = TRUE
  /\ mpc' = "sf_check"
  /\ idleStop' = \A t \in Threads : ~Alive(t)
  /\ UNCHANGED <<remote, auxVars, follow_enabled, follow_thread, docker_proc, source_type,
                 source_id, bufVars, mstack, was_following, merr, nCalls, thrVars,
                 procVars, fileVars, nSpawn, stale, stopRet, read_to>>

\* self.follow_enabled = False; self._stop_event.set()
StopFollowBegin ==
  /\ mpc = "stop_follow"
  /\ follow_enabled' = FALSE
  /\ stop_event' = TRUE
  /\ mpc' = "sf_check"
  /\ idleStop' = \A t \in Threads : ~Alive(t)
  /\ UNCHANGED <<remote, auxVars, follow_thread, docker_proc, source_type, source_id, bufVars,
                 mstack, was_following, merr, nCalls, thrVars, procVars, fileVars,
                 nSpawn, stale, stopRet, read_to>>

\* if self._docker_proc is not None:
StopFollowCheck ==
  /\ mpc = "sf_check"
  /\ mpc' = IF docker_proc # None THEN "sf_poll1" ELSE "sf_join"
  /\ UNCHANGED <<remote, auxVars, svcVars, bufVars, mstack, was_following, merr, nCalls, thrVars,
                 procVars, fileVars, ghostVars>>

\* self._docker_proc.poll() outside the inner try: when the attribute has become
\* None meanwhile the AttributeError leaves stop_follow through its finally
StopFollowPollRaises ==
  /\ mpc \in {"sf_poll1", "sf_grace", "sf_poll2"}
  /\ docker_proc = None
  /\ Raise
  /\ UNCHANGED <<remote, auxVars, svcVars, bufVars, was_following, nCalls, thrVars, procVars, fileVars,
                 ghostVars>>

\* if self._docker_proc.poll() is None:
StopFollowPoll1 ==
  /\ mpc = "sf_poll1"
  /\ docker_proc # None
  /\ mpc' = IF ProcAlive(docker_proc) THEN "sf_term" ELSE "sf_finally"
  /\ UNCHANGED <<remote, auxVars, svcVars, bufVars, mstack, was_following, merr, nCalls, thrVars,
                 procVars, fileVars, ghostVars>>

\* try: self._docker_proc.terminate()  except Exception: pass
StopFollowTerminate ==
  /\ mpc = "sf_term"
  /\ procst' = IF docker_proc # None /\ procst[docker_proc] = "running"
               THEN [procst EXCEPT ![docker_proc] = "termed"] ELSE procst
  /\ mpc' = "sf_grace"
  /\ UNCHANGED <<remote, auxVars, svcVars, bufVars, mstack, was_following, merr, nCalls, thrVars,
                 pout, pseq, fileVars, ghostVars>>

\* for _ in range(10): if poll() is not None: break; sleep(0.05)
\* the loop ends when the process has exited, or after 0.5 s when it has not
StopFollowGrace ==
  /\ mpc = "sf_grace"
  /\ docker_proc # None
  /\ mpc' = "sf_poll2"
  /\ UNCHANGED <<remote, auxVars, svcVars, bufVars, mstack, was_following, merr, nCalls, thrVars,
                 procVars, fileVars, ghostVars>>

\* if self._docker_proc.poll() is None:
StopFollowPoll2 ==
  /\ mpc = "sf_poll2"
  /\ docker_proc # None
  /\ mpc' = IF ProcAlive(docker_proc) THEN "sf_kill" ELSE "sf_finally"
  /\ UNCHANGED <<remote, auxVars, svcVars, bufVars, mstack, was_following, merr, nCalls, thrVars,
                 procVars, fileVars, ghostVars>>

\* try: self._docker_proc.kill()  except Exception: pass
StopFollowKill ==
  /\ mpc = "sf_kill"
  /\ procst' = IF docker_proc # None /\ ProcAlive(docker_proc)
               THEN [procst EXCEPT ![docker_proc] = "exited"] ELSE procst
  /\ mpc' = "sf_finally"
  /\ UNCHANGED <<remote, auxVars, svcVars, bufVars, mstack, was_following, merr, nCalls, thrVars,
                 pout, pseq, fileVars, ghostVars>>

\* finally: self._docker_proc = None
StopFollowFinally ==
  /\ mpc = "sf_finally"
  /\ docker_proc' = None
  /\ mpc' = "sf_join"
  /\ UNCHANGED <<remote, auxVars, follow_enabled, stop_event, follow_thread, source_type,
                 source_id, bufVars, mstack, was_following, merr, nCalls, thrVars, procVars,
                 fileVars, ghostVars>>

\* join(timeout=1.5) is over: the thread has ended, or it is still blocked in I/O
\* when the 1.5 s are up
JoinReturns(t) == IF t = None THEN TRUE ELSE ~Alive(t) \/ Blocked(t)

\* t = self._follow_thread; if t is not None and t.is_alive(): t.join(timeout=1.5)
\* self._follow_thread = None
StopFollowJoin ==
  /\ mpc = "sf_join"
  /\ JoinReturns(follow_thread)
  /\ follow_thread' = None
  /\ stopRet' = stopRet \cup {t \in Threads : tpc[t] # "unborn"}
  /\ Return
  /\ UNCHANGED <<remote, auxVars, follow_enabled, stop_event, docker_proc, source_type,
                 source_id, bufVars, was_following, merr, nCalls, thrVars, procVars, fileVars,
                 nSpawn, stale, idleStop, read_to>>

StopFollow ==
  \/ StopFollowBegin
  \/ StopFollowCheck
  \/ StopFollowPollRaises
  \/ StopFollowPoll1
  \/ StopFollowTerminate
  \/ StopFollowGrace
  \/ StopFollowPoll2
  \/ StopFollowKill
  \/ StopFollowFinally
  \/ StopFollowJoin

(* ----------------------------- start_follow --------------------------- *)
\* the thread object start_follow creates next
FreshThread == CHOOSE t \in Threads : tpc[t] = "unborn" /\ \A u \in Threads : tpc[u] = "unborn" => t <= u

\* if self._follow_thread and self._follow_thread.is_alive(): return
\* self._stop_event.clear(); self.follow_enabled = True
StartFollowBegin ==
  /\ mpc = "start_follow"
  /\ IF follow_thread # None /\ Alive(follow_thread)
     THEN /\ Return
          /\ UNCHANGED <<stop_event, follow_enabled>>
     ELSE /\ \E t \in Threads : tpc[t] = "unborn"
          /\ stop_event' = FALSE
          /\ follow_enabled' = TRUE
          /\ mpc' = "stf_probe"
          /\ UNCHANGED mstack
  /\ UNCHANGED <<remote, auxVars, follow_thread, docker_proc, source_type, source_id, bufVars,
                 was_following, merr, nCalls, thrVars, procVars, fileVars, ghostVars>>

\* docker_ok, _ = is_docker_available(); then the thread of the chosen source
StartFollowSpawn ==
  /\ mpc = "stf_probe"
  /\ \E docker_ok \in BOOLEAN :
       LET t == FreshThread IN
       /\ source_type' = IF docker_ok THEN "docker" ELSE "file"
       /\ source_id' = Prefixed(IF docker_ok THEN "docker_service" ELSE "fallback_path")
       /\ tkind' = [tkind EXCEPT ![t] = IF docker_ok THEN "docker"
                                        ELSE IF remote THEN "rfile" ELSE "file"]
       /\ tpc' = [tpc EXCEPT ![t] = IF docker_ok THEN "d_resolve"
                                    ELSE IF remote THEN "r_start" ELSE "f_start"]
       /\ follow_thread' = t
  /\ Return
  /\ UNCHANGED <<remote, auxVars, follow_enabled, stop_event, docker_proc, bufVars,
                 was_following, merr, nCalls, lproc, last_pos, fopen, procVars, fileVars,
                 ghostVars>>

\* proc.communicate(timeout=5) of is_docker_available raises TimeoutExpired, which
\* nothing catches
ProbeTimesOut ==
  /\ mpc \in {"stf_probe", "ld_probe"}
  /\ Raise
  /\ UNCHANGED <<remote, auxVars, svcVars, bufVars, was_following, nCalls, thrVars, procVars, fileVars,
                 ghostVars>>

StartFollow ==
  \/ StartFollowBegin
  \/ StartFollowSpawn

(* ------------------------ the docker follow thread -------------------- *)
\* container = _best_match_container(...) or self.docker_service
DockerResolve(t) ==
  /\ tpc[t] = "d_resolve"
  /\ tpc' = [tpc EXCEPT ![t] = "d_popen"]
  /\ UNCHANGED <<remote, auxVars, svcVars, bufVars, mainVars, tkind, lproc, last_pos, fopen,
                 procVars, fileVars, ghostVars>>

\* self._docker_proc = subprocess.Popen(docker_cmd(args), ...), or it raises
DockerPopen(t) ==
  /\ tpc[t] = "d_popen"
  /\ \/ /\ docker_proc' = t
        /\ procst' = [procst EXCEPT ![t] = "running"]
        /\ nSpawn' = nSpawn + 1
        /\ tpc' = [tpc EXCEPT ![t] = "d_bind"]
     \/ /\ tpc' = [tpc EXCEPT ![t] = "d_nospawn"]
        /\ UNCHANGED <<docker_proc, procst, nSpawn>>
  /\ UNCHANGED <<remote, auxVars, follow_enabled, stop_event, follow_thread, source_type,
                 source_id, bufVars, mainVars, tkind, lproc, last_pos, fopen, pout,
                 pseq, fileVars, stale, idleStop, stopRet, read_to>>

\* a handler that reports the failure and ends the session
DockerSpawnFailedEnds(t) ==
  /\ tpc[t] = "d_nospawn"
  /\ Push(Line("docker_fallback", t, 0))
  /\ tpc' = [tpc EXCEPT ![t] = "done"]
  /\ UNCHANGED <<remote, auxVars, svcVars, mainVars, tkind, lproc, last_pos, fopen, procVars,
                 fileVars, ghostVars>>

\* except FileNotFoundError / except Exception: one [docker] line, the source
\* becomes the fallback file, and the thread goes on in the file follow
DockerSpawnFailed(t) ==
  /\ tpc[t] = "d_nospawn"
  /\ Push(Line("docker_fallback", t, 0))
  /\ source_type' = "file"
  /\ source_id' = Prefixed("fallback_path")
  /\ tkind' = [tkind EXCEPT ![t] = IF remote THEN "rfile" ELSE "file"]
  /\ tpc' = [tpc EXCEPT ![t] = IF remote THEN "r_start" ELSE "f_start"]
  /\ UNCHANGED <<remote, auxVars, follow_enabled, stop_event, follow_thread, docker_proc,
                 mainVars, lproc, last_pos, fopen, procVars, fileVars, ghostVars>>

\* proc = self._docker_proc; append_message("[docker] Following container ...");
\* stdout = proc.stdout  (an AttributeError ends the thread when proc is None)
DockerBind(t) ==
  /\ tpc[t] = "d_bind"
  /\ lproc' = [lproc EXCEPT ![t] = docker_proc]
  /\ Push(Line("docker_following", t, 0))
  /\ tpc' = [tpc EXCEPT ![t] = IF docker_proc = None THEN "crashed" ELSE "d_loop"]
  /\ UNCHANGED <<remote, auxVars, svcVars, mainVars, tkind, last_pos, fopen, procVars, fileVars,
                 ghostVars>>

\* while not self._stop_event.is_set():
ReadLoopCheck(t, here, read, after) ==
  /\ tpc[t] = here
  /\ tpc' = [tpc EXCEPT ![t] = IF stop_event THEN after ELSE read]
  /\ UNCHANGED <<remote, auxVars, svcVars, bufVars, mainVars, tkind, lproc, last_pos, fopen,
                 procVars, fileVars, ghostVars>>

\* line = stdout.readline(): a line is appended; at end of file with the process
\* gone the loop is left; otherwise the call blocks
ReadLine(t, here, loop, after, kind) ==
  /\ tpc[t] = here
  /\ LET p == lproc[t] IN
     \/ /\ pout[p] > 0
        /\ pout' = [pout EXCEPT ![p] = @ - 1]
        /\ Push(Line(kind, t, pseq[p] - pout[p] + 1))
        /\ tpc' = [tpc EXCEPT ![t] = loop]
     \/ /\ pout[p] = 0
        /\ ~ProcAlive(p)
        /\ tpc' = [tpc EXCEPT ![t] = after]
        /\ UNCHANGED <<bufVars, pout>>
  /\ UNCHANGED <<remote, auxVars, svcVars, mainVars, tkind, lproc, last_pos, fopen, procst, pseq,
                 fileVars, ghostVars>>

\* if proc.poll() is not None and stderr: err_tail = stderr.read().strip();
\* if err_tail: append_message(...)
DrainStderr(t, here, next, kind) ==
  /\ tpc[t] = here
  /\ \/ /\ ~ProcAlive(lproc[t])
        /\ Push(Line(kind, t, 0))
     \/ UNCHANGED bufVars
  /\ tpc' = [tpc EXCEPT ![t] = next]
  /\ UNCHANGED <<remote, auxVars, svcVars, mainVars, tkind, lproc, last_pos, fopen, procVars,
                 fileVars, ghostVars>>

\* finally: rc = proc.poll(); if rc is None: proc.terminate()
\*          else: append_message("... Follow ended (exit={rc}).")
EndOfProcess(t, here, next, kind) ==
  /\ tpc[t] = here
  /\ IF ProcAlive(lproc[t])
     THEN /\ procst' = [procst EXCEPT ![lproc[t]] = "termed"]
          /\ UNCHANGED bufVars
     ELSE /\ Push(Line(kind, t, 0))
          /\ UNCHANGED procst
  /\ tpc' = [tpc EXCEPT ![t] = next]
  /\ UNCHANGED <<remote, auxVars, svcVars, mainVars, tkind, lproc, last_pos, fopen, pout, pseq,
                 fileVars, ghostVars>>

\* an end of stream after which the session starts over
StreamEndedRestarts(t, here, kind) ==
  /\ tpc[t] = here
  /\ IF follow_enabled /\ ~stop_event
     THEN /\ Push(Line(kind, t, 0))
          /\ tpc' = [tpc EXCEPT ![t] = IF here = "d_end" THEN "d_popen" ELSE "r_popen"]
     ELSE /\ UNCHANGED bufVars
          /\ tpc' = [tpc EXCEPT ![t] = "done"]
  /\ UNCHANGED <<remote, auxVars, svcVars, mainVars, tkind, lproc, last_pos, fopen, procVars,
                 fileVars, ghostVars>>

\* if self.follow_enabled and not self._stop_event.is_set():
\*     append_message("... ended. ... Toggle follow to restart ...")
\* and the thread function returns
StreamEnded(t, here, kind) ==
  /\ tpc[t] = here
  /\ IF follow_enabled /\ ~stop_event
     THEN Push(Line(kind, t, 0))
     ELSE UNCHANGED bufVars
  /\ tpc' = [tpc EXCEPT ![t] = "done"]
  /\ UNCHANGED <<remote, auxVars, svcVars, mainVars, tkind, lproc, last_pos, fopen, procVars,
                 fileVars, ghostVars>>

DockerLoop(t) == ReadLoopCheck(t, "d_loop", "d_read", "d_drain")

DockerRead(t) == ReadLine(t, "d_read", "d_loop", "d_drain", "docker_log")

DockerDrain(t) == DrainStderr(t, "d_drain", "d_fin", "docker_stderr")

DockerFinally(t) == EndOfProcess(t, "d_fin", "d_unreg", "docker_ended")

\* self._docker_proc = None
DockerUnregister(t) ==
  /\ tpc[t] = "d_unreg"
  /\ docker_proc' = None
  /\ tpc' = [tpc EXCEPT ![t] = "d_end"]
  /\ UNCHANGED <<remote, auxVars, follow_enabled, stop_event, follow_thread, source_type,
                 source_id, bufVars, mainVars, tkind, lproc, last_pos, fopen, procVars,
                 fileVars, ghostVars>>

DockerEnd(t) == StreamEnded(t, "d_end", "docker_process_ended")

FollowDocker(t) ==
  \/ DockerResolve(t)
  \/ DockerPopen(t)
  \/ DockerSpawnFailed(t)
  \/ DockerBind(t)
  \/ DockerLoop(t)
  \/ DockerRead(t)
  \/ DockerDrain(t)
  \/ DockerFinally(t)
  \/ DockerUnregister(t)
  \/ DockerEnd(t)

(* ------------------- the remote file follow thread -------------------- *)
\* append_message(f"{label_prefix} Following file ...")
RemoteStart(t) ==
  /\ tpc[t] = "r_start"
  /\ Push(Line("ssh_following", t, 0))
  /\ tpc' = [tpc EXCEPT ![t] = "r_popen"]
  /\ UNCHANGED <<remote, auxVars, svcVars, mainVars, tkind, lproc, last_pos, fopen, procVars,
                 fileVars, ghostVars>>

\* proc = subprocess.Popen(wrap_cmd_for_remote(args), ...); self._docker_proc = None
\* or: except Exception: append_message("... Failed to start remote tail"); return
RemotePopen(t) ==
  /\ tpc[t] = "r_popen"
  /\ \/ /\ procst' = [procst EXCEPT ![t] = "running"]
        /\ lproc' = [lproc EXCEPT ![t] = t]
        /\ nSpawn' = nSpawn + 1
        /\ docker_proc' = None
        /\ tpc' = [tpc EXCEPT ![t] = "r_loop"]
        /\ UNCHANGED bufVars
     \/ /\ Push(Line("ssh_failed", t, 0))
        /\ tpc' = [tpc EXCEPT ![t] = "done"]
        /\ UNCHANGED <<procst, lproc, nSpawn, docker_proc>>
  /\ UNCHANGED <<remote, auxVars, follow_enabled, stop_event, follow_thread, source_type,
                 source_id, mainVars, tkind, last_pos, fopen, pout, pseq, fileVars,
                 stale, idleStop, stopRet, read_to>>

RemoteLoop(t) == ReadLoopCheck(t, "r_loop", "r_read", "r_drain")

RemoteRead(t) == ReadLine(t, "r_read", "r_loop", "r_drain", "ssh_log")

RemoteDrain(t) == DrainStderr(t, "r_drain", "r_fin", "ssh_stderr")

RemoteFinally(t) == EndOfProcess(t, "r_fin", "r_end", "ssh_ended")

RemoteEnd(t) == StreamEnded(t, "r_end", "ssh_process_ended")

FollowRemoteFile(t) ==
  \/ RemoteStart(t)
  \/ RemotePopen(t)
  \/ RemoteLoop(t)
  \/ RemoteRead(t)
  \/ RemoteDrain(t)
  \/ RemoteFinally(t)
  \/ RemoteEnd(t)

(* -------------------- the local file follow thread -------------------- *)
\* open_and_seek_end: file_obj = open(path); file_obj.seek(0, os.SEEK_END);
\* last_pos = file_obj.tell(); a failed open leaves file_obj and last_pos alone
OpenAndSeekEnd(t, ok) ==
  /\ fopen' = [fopen EXCEPT ![t] = ok]
  /\ last_pos' = IF ok THEN [last_pos EXCEPT ![t] = Len(file)] ELSE last_pos

\* append_message(f"[file] Following file '{path}' ...")
FileStart(t) ==
  /\ tpc[t] = "f_start"
  /\ Push(Line("file_following", t, 0))
  /\ tpc' = [tpc EXCEPT ![t] = "f_open"]
  /\ UNCHANGED <<remote, auxVars, svcVars, mainVars, tkind, lproc, last_pos, fopen, procVars,
                 fileVars, ghostVars>>

\* ok, err = open_and_seek_end(); if not ok: append_message(err); return
FileOpen(t) ==
  /\ tpc[t] = "f_open"
  /\ \E ok \in BOOLEAN :
       /\ OpenAndSeekEnd(t, ok)
       /\ IF ok THEN UNCHANGED bufVars ELSE Push(Line("file_open_error", t, 0))
       /\ read_to' = IF ok THEN [read_to EXCEPT ![t] = nextId - 1] ELSE read_to
       /\ tpc' = [tpc EXCEPT ![t] = IF ok THEN "f_loop" ELSE "done"]
  /\ UNCHANGED <<remote, auxVars, svcVars, mainVars, tkind, lproc, procVars, fileVars, nSpawn,
                 stale, idleStop, stopRet>>

\* while not self._stop_event.is_set():
FileLoop(t) ==
  /\ tpc[t] = "f_loop"
  /\ tpc' = [tpc EXCEPT ![t] = IF stop_event THEN "f_fin" ELSE "f_size"]
  /\ UNCHANGED <<remote, auxVars, svcVars, bufVars, mainVars, tkind, lproc, last_pos, fopen,
                 procVars, fileVars, ghostVars>>

\* cur_size = os.path.getsize(path) (the path exists throughout: it does not raise);
\* if cur_size is not None and cur_size < last_pos:
\*     append_message("[file] Detected truncation/rotation ..."); file_obj.close()
\* the line carries the truncation it reports (truncMark)
FileCheckSize(t) ==
  /\ tpc[t] = "f_size"
  /\ \/ /\ Len(file) < last_pos[t]
        /\ Push(Line("file_rotation", t, truncMark))
        /\ fopen' = [fopen EXCEPT ![t] = FALSE]
        /\ tpc' = [tpc EXCEPT ![t] = "f_reopen"]
     \/ /\ Len(file) >= last_pos[t]
        /\ tpc' = [tpc EXCEPT ![t] = "f_read"]
        /\ UNCHANGED <<bufVars, fopen>>
  /\ UNCHANGED <<remote, auxVars, svcVars, mainVars, tkind, lproc, last_pos, procVars, fileVars,
                 ghostVars>>

\* ok, err = open_and_seek_end()
\* if not ok: append_message(err); time.sleep(...); continue
FileReopen(t) ==
  /\ tpc[t] = "f_reopen"
  /\ \E ok \in BOOLEAN :
       /\ OpenAndSeekEnd(t, ok)
       /\ IF ok THEN UNCHANGED bufVars ELSE Push(Line("file_reopen_error", t, 0))
       /\ tpc' = [tpc EXCEPT ![t] = IF ok THEN "f_read" ELSE "f_loop"]
  /\ UNCHANGED <<remote, auxVars, svcVars, mainVars, tkind, lproc, procVars, fileVars, ghostVars>>

\* line = file_obj.readline()
\* if line: last_pos = file_obj.tell(); self.lines.append(...)  else: sleep
\* except Exception as e (the handle is closed): append_message("[file] Error ...")
FileRead(t) ==
  /\ tpc[t] = "f_read"
  /\ IF ~fopen[t]
     THEN /\ Push(Line("file_error", t, 0))
          /\ UNCHANGED <<last_pos, read_to>>
     ELSE IF last_pos[t] < Len(file)
     THEN /\ Push(Line("file_log", t, file[last_pos[t] + 1]))
          /\ last_pos' = [last_pos EXCEPT ![t] = @ + 1]
          /\ read_to' = [read_to EXCEPT ![t] = file[last_pos[t] + 1]]
     ELSE UNCHANGED <<bufVars, last_pos, read_to>>
  /\ tpc' = [tpc EXCEPT ![t] = "f_loop"]
  /\ UNCHANGED <<remote, auxVars, svcVars, mainVars, tkind, lproc, fopen, procVars, fileVars,
                 nSpawn, stale, idleStop, stopRet>>

\* finally: file_obj.close(); if self.follow_enabled and not stop: append_message(...)
FileFinally(t) ==
  /\ tpc[t] = "f_fin"
  /\ fopen' = [fopen EXCEPT ![t] = FALSE]
  /\ IF follow_enabled /\ ~stop_event
     THEN Push(Line("file_ended", t, 0))
     ELSE UNCHANGED bufVars
  /\ tpc' = [tpc EXCEPT ![t] = "done"]
  /\ UNCHANGED <<remote, auxVars, svcVars, mainVars, tkind, lproc, last_pos, procVars, fileVars,
                 ghostVars>>

FollowFile(t) ==
  \/ FileStart(t)
  \/ FileOpen(t)
  \/ FileLoop(t)
  \/ FileCheckSize(t)
  \/ FileReopen(t)
  \/ FileRead(t)
  \/ FileFinally(t)

(* --------------------------- the environment -------------------------- *)
\* the followed command writes a line to its stdout
ProcEmit(p) ==
  /\ procst[p] = "running"
  /\ pseq[p] < MaxProcLines
  /\ pout' = [pout EXCEPT ![p] = @ + 1]
  /\ pseq' = [pseq EXCEPT ![p] = @ + 1]
  /\ UNCHANGED <<remote, auxVars, svcVars, bufVars, mainVars, thrVars, procst, fileVars, ghostVars>>

\* the followed command ends: on its own, or because it was sent SIGTERM
ProcExit(p) ==
  /\ ProcAlive(p)
  /\ procst' = [procst EXCEPT ![p] = "exited"]
  /\ UNCHANGED <<remote, auxVars, svcVars, bufVars, mainVars, thrVars, pout, pseq, fileVars,
                 ghostVars>>

\* the service writes a line to its log file
FileWrite ==
  /\ nextId <= MaxFileLines
  /\ file' = Append(file, nextId)
  /\ nextId' = nextId + 1
  /\ UNCHANGED <<remote, auxVars, svcVars, bufVars, mainVars, thrVars, procVars, truncMark,
                 ghostVars>>

\* the log file is truncated to its first k lines
FileTruncate ==
  /\ \E k \in 0..(Len(file) - 1) :
       file' = SubSeq(file, 1, k)
  /\ truncMark' = nextId
  /\ UNCHANGED <<remote, auxVars, svcVars, bufVars, mainVars, thrVars, procVars, nextId, ghostVars>>

Environment ==
  \/ \E p \in Threads : ProcEmit(p)
  \/ \E p \in Threads : ProcExit(p)
  \/ FileWrite
  \/ FileTruncate

(* -------------------------------- load -------------------------------- *)
\* self.stop_follow()  # ensure clean state
LoadBegin ==
  /\ mpc = "load"
  /\ Call("stop_follow", "ld_clear")
  /\ UNCHANGED <<remote, auxVars, svcVars, bufVars, was_following, merr, nCalls, thrVars, procVars,
                 fileVars, ghostVars>>

\* self._clear_lines()
LoadClear ==
  /\ mpc = "ld_clear"
  /\ ClearLines
  /\ stale' = stale \cup {t \in Threads : Alive(t)}
  /\ mpc' = "ld_probe"
  /\ UNCHANGED <<remote, auxVars, svcVars, mstack, was_following, merr, nCalls, thrVars, procVars,
                 fileVars, nSpawn, idleStop, stopRet, read_to>>

\* docker_ok, docker_msg = is_docker_available()
\* if not docker_ok: append_message(f"[docker] {docker_msg}")
LoadProbe ==
  /\ mpc = "ld_probe"
  /\ \/ /\ mpc' = "ld_docker"
        /\ UNCHANGED bufVars
     \/ /\ Push(Line("load_docker_unavailable", 0, 0))
        /\ mpc' = "ld_file"
  /\ UNCHANGED <<remote, auxVars, svcVars, mstack, was_following, merr, nCalls, thrVars, procVars,
                 fileVars, ghostVars>>

\* the lines docker logs --tail n prints
DockerSnapshot(n) == [i \in 1..n |-> Line("docker_snapshot", 0, i)]

\* data, err, resolved = docker_logs_tail(...): the lines and the source, or
\* append_message(f"[docker] {err}") and the file is tried
LoadDocker ==
  /\ mpc = "ld_docker"
  /\ \/ /\ \E n \in {0, DEFAULT_TAIL} : PushAll(DockerSnapshot(n))
        /\ source_type' = "docker"
        /\ \E resolved \in {"docker_service", "candidate"} :
             source_id' = Prefixed(resolved)
        /\ mpc' = "ld_done"
     \/ /\ Push(Line("load_docker_error", 0, 0))
        /\ mpc' = "ld_file"
        /\ UNCHANGED <<source_type, source_id>>
  /\ UNCHANGED <<remote, auxVars, follow_enabled, stop_event, follow_thread, docker_proc, mstack,
                 was_following, merr, nCalls, thrVars, procVars, fileVars, ghostVars>>

\* the last n lines of the file, as tail_lines returns them
FileSnapshot(n) ==
  LET tail == LastN(file, n) IN [i \in 1..Len(tail) |-> Line("file_snapshot", 0, tail[i])]

\* data, ferr = tail_lines(self.fallback_path, self.tail_n)
\* if ferr: append_message(f"[file] {ferr}")  else: the lines
\* self._source_type = "file"; self._source_id = ... + self.fallback_path
LoadFile ==
  /\ mpc = "ld_file"
  /\ \/ PushAll(FileSnapshot(DEFAULT_TAIL))
     \/ Push(Line("load_file_error", 0, 0))
  /\ source_type' = "file"
  /\ source_id' = Prefixed("fallback_path")
  /\ mpc' = "ld_done"
  /\ UNCHANGED <<remote, auxVars, follow_enabled, stop_event, follow_thread, docker_proc, mstack,
                 was_following, merr, nCalls, thrVars, procVars, fileVars, ghostVars>>

\* append_message(f"[info] Loaded last {self.tail_n} lines from ...")
LoadDone ==
  /\ mpc = "ld_done"
  /\ Push(Line("load_info", 0, 0))
  /\ Return
  /\ UNCHANGED <<remote, auxVars, svcVars, was_following, merr, nCalls, thrVars, procVars, fileVars,
                 ghostVars>>

Load ==
  \/ LoadBegin
  \/ LoadClear
  \/ LoadProbe
  \/ LoadDocker
  \/ LoadFile
  \/ LoadDone

(* ---------------------------- reload_tail ----------------------------- *)
\* was_following = self.active_model.follow_enabled; self.active_model.stop_follow()
ReloadTailBegin ==
  /\ mpc = "reload_tail"
  /\ was_following' = follow_enabled
  /\ Call("stop_follow", "rt_load")
  /\ UNCHANGED <<remote, auxVars, svcVars, bufVars, merr, nCalls, thrVars, procVars, fileVars, ghostVars>>

\* self.active_model.load()
ReloadTailLoad ==
  /\ mpc = "rt_load"
  /\ Call("load", "rt_restart")
  /\ UNCHANGED <<remote, auxVars, svcVars, bufVars, was_following, merr, nCalls, thrVars, procVars,
                 fileVars, ghostVars>>

\* if was_following: self.active_model.start_follow()
ReloadTailRestart ==
  /\ mpc = "rt_restart"
  /\ IF was_following
     THEN /\ mpc' = "start_follow"
          /\ UNCHANGED mstack
     ELSE Return
  /\ was_following' = FALSE
  /\ UNCHANGED <<remote, auxVars, svcVars, bufVars, merr, nCalls, thrVars, procVars,
                 fileVars, ghostVars>>

ReloadTail ==
  \/ ReloadTailBegin
  \/ ReloadTailLoad
  \/ ReloadTailRestart

(* --------------------------- specification ---------------------------- *)
UIThread ==
  \/ UICall
  \/ ToggleFollow
  \/ StopFollow
  \/ StartFollow
  \/ ProbeTimesOut
  \/ Load
  \/ ReloadTail

FollowThread(t) ==
  \/ FollowDocker(t)
  \/ FollowRemoteFile(t)
  \/ FollowFile(t)

Next ==
  \/ UIThread
  \/ \E t \in Threads : FollowThread(t)
  \/ Environment

Spec == Init /\ [][Next]_vars

(* ============================== claims ================================ *)
(* ------------------------ container resolution ------------------------ *)
\* Strings are sequences of characters.  The container names docker ps can print
\* (docker allows no blank in a name); an empty line stands for a blank line
ContainerNames ==
  { <<"s", "-", "1">>, <<"o", "s", "-", "1">>, <<"O", "S", "-", "1">>,
    <<"p", "s", "_", "1">>, <<"w", "2">>, <<"a", "-", "b">>, <<"a", "_", "b">>,
    <<"z">>, <<>> }

\* the preferred identifiers of a service
PreferredNames == { <<"s", "-", "1">>, <<"q">> }

\* the friendly names of a service
FriendlyNames == { <<"w">>, <<"a", " ", "b">>, <<>> }

\* the sequences over S of length at most n
SeqsUpTo(S, n) == UNION {[1..k -> S] : k \in 0..n}

\* str.lower() of one character
LowerChar(c) ==
  CASE c = "O" -> "o"
    [] c = "S" -> "s"
    [] OTHER -> c

\* str.lower()
Lower(s) == IF s = <<>> THEN <<>> ELSE [i \in 1..Len(s) |-> LowerChar(s[i])]

\* s.replace(a, b) for characters a and b
Replace(s, a, b) ==
  IF s = <<>> THEN <<>> ELSE [i \in 1..Len(s) |-> IF s[i] = a THEN b ELSE s[i]]

\* sub in s
Contains(sub, s) ==
  \E i \in 0..(Len(s) - Len(sub)) : SubSeq(s, i + 1, i + Len(sub)) = sub

\* _list_docker_container_names: the non-blank lines docker ps printed, or [] when
\* docker ps failed
ListDockerContainerNames(out, ok) ==
  IF ok THEN SelectSeq(out, LAMBDA ln : ln # <<>>) ELSE <<>>

\* tokens = [preferred, preferred.replace("-", "_"), friendly,
\*           friendly.replace(" ", "-"), friendly.replace(" ", "_")]
\* tokens = [t for t in tokens if t]
Tokens(pref, fr) ==
  SelectSeq(<<pref, Replace(pref, "-", "_"), fr, Replace(fr, " ", "-"),
              Replace(fr, " ", "_")>>, LAMBDA tok : tok # <<>>)

\* a resolution without the exact-match loop
ExactMatchNever(ns, pref) == NoName

RECURSIVE ExactMatch(_, _)
\* for n in names: if n == preferred: return n
ExactMatch(ns, pref) ==
  IF ns = <<>> THEN NoName
  ELSE IF Head(ns) = pref THEN Head(ns)
  ELSE ExactMatch(Tail(ns), pref)

RECURSIVE FirstContaining(_, _)
\* for orig, low in lower_names: if lt and lt in low: return orig
FirstContaining(lt, ns) ==
  IF ns = <<>> THEN NoName
  ELSE IF lt # <<>> /\ Contains(lt, Lower(Head(ns))) THEN Head(ns)
  ELSE FirstContaining(lt, Tail(ns))

RECURSIVE FirstNameMatch(_, _)
\* a search that goes through the names first and the tokens second
FirstNameMatch(tokens, ns) ==
  IF ns = <<>> THEN NoName
  ELSE IF \E k \in 1..Len(tokens) : Contains(Lower(tokens[k]), Lower(Head(ns)))
  THEN Head(ns)
  ELSE FirstNameMatch(tokens, Tail(ns))

RECURSIVE FirstTokenMatch(_, _)
\* for t in tokens: lt = t.lower(); for orig, low in lower_names: ...
FirstTokenMatch(tokens, ns) ==
  IF tokens = <<>> THEN NoName
  ELSE LET hit == FirstContaining(Lower(Head(tokens)), ns)
       IN  IF hit # NoName THEN hit ELSE FirstTokenMatch(Tail(tokens), ns)

\* a resolution that gives up when neither equality nor a token matches
BestMatchNoDefault(ns, pref, fr) ==
  IF ns = <<>> THEN NoName
  ELSE LET exact == ExactMatch(ns, pref)
       IN  IF exact # NoName THEN exact ELSE FirstTokenMatch(Tokens(pref, fr), ns)

\* _best_match_container, on the names _list_docker_container_names returned
BestMatchContainer(ns, pref, fr) ==
  IF ns = <<>> THEN NoName
  ELSE LET exact == ExactMatch(ns, pref)
       IN  IF exact # NoName THEN exact
           ELSE LET hit == FirstTokenMatch(Tokens(pref, fr), ns)
                IN  IF hit # NoName THEN hit ELSE ns[1]

\* docker_logs_tail(service, n, friendly_name): the error flag and the container of
\* its result.  The exact identifier is tried first; when that fails, the discovered
\* candidate is tried once
DockerLogsTail(ns, service, friendly_name) ==
  IF exact_ok THEN [err |-> FALSE, resolved |-> service]
  ELSE LET cand == BestMatchContainer(ns, service,
                     IF friendly_name # <<>> THEN friendly_name ELSE service)
       IN  IF cand # NoName /\ cand # service /\ cand_ok
           THEN [err |-> FALSE, resolved |-> cand]
           ELSE [err |-> TRUE, resolved |-> service]

\* container = _best_match_container(self.docker_service, self.name) or self.docker_service
FollowContainer(ns, service, name) ==
  LET best == BestMatchContainer(ns, service, name)
  IN  IF best # NoName THEN best ELSE service

\* start_follow: self._source_id = (f"{REMOTE_SSH}:" if is_remote() else "") +
\* self.docker_service, the source id reported while the docker follow runs
StartFollowSourceId(service) == Prefixed(service)

\* a service, the containers docker ps lists, and what docker logs can read
InitMatch ==
  /\ ModelInit
  /\ running \in SeqsUpTo(ContainerNames, MaxNames)
  /\ ps_ok \in BOOLEAN
  /\ preferred \in PreferredNames
  /\ friendly \in FriendlyNames
  /\ exact_ok \in BOOLEAN
  /\ cand_ok \in BOOLEAN
  /\ candidate = NoName
  /\ tail_resolved = NoName
  /\ tail_err = FALSE
  /\ container = NoName
  /\ applied = {}
  /\ NoTui
  /\ NoText

modelVars == <<remote, svcVars, bufVars, mainVars, thrVars, procVars, fileVars, ghostVars>>

\* _best_match_container(preferred, friendly)
ApplyBestMatch ==
  /\ "best" \notin applied
  /\ candidate' = BestMatchContainer(ListDockerContainerNames(running, ps_ok), preferred,
                                      friendly)
  /\ applied' = applied \cup {"best"}
  /\ UNCHANGED <<running, ps_ok, preferred, friendly, exact_ok, cand_ok, tail_resolved,
                 tail_err, container, modelVars, tuiVars, textVars>>

\* data, err, resolved = docker_logs_tail(self.docker_service, self.tail_n, self.name)
ApplyDockerLogsTail ==
  /\ "tail" \notin applied
  /\ LET r == DockerLogsTail(ListDockerContainerNames(running, ps_ok), preferred, friendly)
     IN  /\ tail_resolved' = r.resolved
         /\ tail_err' = r.err
  /\ applied' = applied \cup {"tail"}
  /\ UNCHANGED <<running, ps_ok, preferred, friendly, exact_ok, cand_ok, candidate,
                 container, modelVars, tuiVars, textVars>>

\* the container _follow_docker_thread resolves before it spawns docker logs -f
ApplyFollowContainer ==
  /\ "follow" \notin applied
  /\ container' = FollowContainer(ListDockerContainerNames(running, ps_ok), preferred,
                                  friendly)
  /\ applied' = applied \cup {"follow"}
  /\ UNCHANGED <<running, ps_ok, preferred, friendly, exact_ok, cand_ok, candidate,
                 tail_resolved, tail_err, modelVars, tuiVars, textVars>>

NextMatch ==
  \/ ApplyBestMatch
  \/ ApplyDockerLogsTail
  \/ ApplyFollowContainer

SpecMatch == InitMatch /\ [][NextMatch]_vars

(* ------------------- load(): the source it settles on ------------------ *)
\* the path of the fallback file and of a container's JSON log file
FallbackPath == <<"fallback_path">>
DockerJsonLogPath(cand) == <<"json">> \o cand

Reversed(s) == IF s = <<>> THEN <<>> ELSE [i \in 1..Len(s) |-> s[Len(s) + 1 - i]]

\* a resolution that reads the list of running containers backwards once a first
\* run of load() has settled
LoadSourceRefByRun(ok, jok, ns, service, name) ==
  LET ms == IF source_ref[1] = NoRef THEN ns ELSE Reversed(ns)
      r == DockerLogsTail(ms, service, name)
      cand == BestMatchContainer(ms, service, name)
  IN  IF ok /\ ~r.err THEN [type |-> "docker", id |-> Prefixed(r.resolved)]
      ELSE IF remote /\ jok /\ cand # NoName
           THEN [type |-> "file", id |-> Prefixed(DockerJsonLogPath(cand))]
           ELSE [type |-> "file", id |-> Prefixed(FallbackPath)]

\* load(): _source_type and _source_id when it returns.  docker when the probe
\* answers True and docker_logs_tail returns no error; else the container's JSON
\* log file when that is asked for, found and readable on a remote host; else
\* the fallback file
LoadSourceRef(ok, jok, ns, service, name) ==
  LET r == DockerLogsTail(ns, service, name)
      cand == BestMatchContainer(ns, service, name)
  IN  IF ok /\ ~r.err THEN [type |-> "docker", id |-> Prefixed(r.resolved)]
      ELSE IF remote /\ jok /\ cand # NoName
           THEN [type |-> "file", id |-> Prefixed(DockerJsonLogPath(cand))]
           ELSE [type |-> "file", id |-> Prefixed(FallbackPath)]

\* the descriptor, the probe result, the running containers and the result of
\* every fetch are drawn once; load() then runs twice on them
InitResolve ==
  /\ ModelInit
  /\ running \in SeqsUpTo(ContainerNames, MaxNames)
  /\ ps_ok \in BOOLEAN
  /\ preferred \in PreferredNames
  /\ friendly \in FriendlyNames
  /\ exact_ok \in BOOLEAN
  /\ cand_ok \in BOOLEAN
  /\ candidate = NoName
  /\ tail_resolved = NoName
  /\ tail_err = FALSE
  /\ container = NoName
  /\ applied = {}
  /\ probe_ok \in BOOLEAN
  /\ json_ok \in BOOLEAN
  /\ source_ref = [i \in Runs |-> NoRef]
  /\ NoSanitize
  /\ NoTail
  /\ NoFilter
  /\ NoTui

\* one run of load() up to the assignment of _source_type and _source_id
ApplyLoad(i) ==
  /\ source_ref[i] = NoRef
  /\ source_ref' = [source_ref EXCEPT ![i] =
        LoadSourceRef(probe_ok, json_ok, ListDockerContainerNames(running, ps_ok),
                      preferred, friendly)]
  /\ UNCHANGED <<probe_ok, json_ok, modelVars, matchVars, tuiVars, sanVars, tailVars, filterVars>>

NextResolve == \E i \in Runs : ApplyLoad(i)

SpecResolve == InitResolve /\ [][NextResolve]_vars

(* ---------------------------- sanitize_line ---------------------------- *)
\* the code points a line is drawn from: ESC, "[", "0", " ", "m", tab, BEL,
\* newline, DEL and the no-break space
SanChars == {27, 91, 48, 32, 109, 9, 7, 10, 127, 160}

\* the classes of ANSI_ESCAPE_RE: [0-?], [ -/] and [@-~]
IsParam(c) == c \in 48..63
IsInter(c) == c \in 32..47
IsFinal(c) == c \in 64..126

\* the ways \x1B\[[0-?]*[ -/]*[@-~] matches s at i: <<a, b>> where the run of
\* [0-?] ends before a, the run of [ -/] ends before b and s[b] is in [@-~]
AnsiMatches(s, i) ==
  IF i + 1 <= Len(s) /\ s[i] = 27 /\ s[i + 1] = 91
  THEN {e \in ((i + 2)..(Len(s) + 1)) \X ((i + 2)..Len(s)) :
          /\ e[1] <= e[2]
          /\ \A j \in (i + 2)..(e[1] - 1) : IsParam(s[j])
          /\ \A j \in e[1]..(e[2] - 1) : IsInter(s[j])
          /\ IsFinal(s[e[2]])}
  ELSE {}

\* the last position of the match at i, 0 when there is none: both stars are
\* greedy, the first one has priority
AnsiMatchEnd(s, i) ==
  LET es == AnsiMatches(s, i)
  IN  IF es = {} THEN 0
      ELSE (CHOOSE e \in es :
              \A f \in es : f[1] < e[1] \/ (f[1] = e[1] /\ f[2] <= e[2]))[2]

RECURSIVE AnsiSubFrom(_, _)
\* ANSI_ESCAPE_RE.sub("", s) from position i on: the leftmost match is removed,
\* the scan goes on after it
AnsiSubFrom(s, i) ==
  IF i > Len(s) THEN <<>>
  ELSE LET e == AnsiMatchEnd(s, i)
       IN  IF e # 0 THEN AnsiSubFrom(s, e + 1)
           ELSE <<s[i]>> \o AnsiSubFrom(s, i + 1)

\* s = ANSI_ESCAPE_RE.sub("", s)
AnsiSub(s) == AnsiSubFrom(s, 1)

RECURSIVE ReplaceTabs(_)
\* s = s.replace("\t", "    ")
ReplaceTabs(s) ==
  IF s = <<>> THEN <<>>
  ELSE (IF Head(s) = 9 THEN <<32, 32, 32, 32>> ELSE <<Head(s)>>) \o ReplaceTabs(Tail(s))

\* a filter that lets ESC through
KeptCharOrEsc(c) == c = 27 \/ c = 10 \/ c = 13 \/ c = 9 \/ (32 <= c /\ c <= 126) \/ c >= 160

\* ch == "\n" or ch == "\r" or ch == "\t" or (32 <= ord(ch) <= 126) or (ord(ch) >= 160)
KeptChar(c) == c = 10 \/ c = 13 \/ c = 9 \/ (32 <= c /\ c <= 126) \/ c >= 160

\* "".join(ch for ch in s if ...)
DropControl(s) == SelectSeq(s, KeptChar)

\* a sanitizer that leaves tabs alone
SanitizeLineKeepTabs(s) == DropControl(AnsiSub(s))

\* sanitize_line(s)
SanitizeLine(s) == DropControl(ReplaceTabs(AnsiSub(s)))

InitSanitize ==
  /\ ModelInit
  /\ NoResolution
  /\ NoTui
  /\ NoLoadRun
  /\ NoTail
  /\ NoFilter
  /\ san_in \in SeqsUpTo(SanChars, MaxSanLen)
  /\ san_out = <<>>
  /\ san_twice = <<>>
  /\ san_pc = "idle"

\* sanitize_line applied to a raw line
ApplySanitize ==
  /\ san_pc = "idle"
  /\ san_out' = SanitizeLine(san_in)
  /\ san_pc' = "once"
  /\ UNCHANGED <<san_in, san_twice, modelVars, matchVars, tuiVars, resolveVars, tailVars, filterVars>>

\* sanitize_line applied to a line it returned
ApplySanitizeAgain ==
  /\ san_pc = "once"
  /\ san_twice' = SanitizeLine(san_out)
  /\ san_pc' = "twice"
  /\ UNCHANGED <<san_in, san_out, modelVars, matchVars, tuiVars, resolveVars, tailVars, filterVars>>

NextSanitize ==
  \/ ApplySanitize
  \/ ApplySanitizeAgain

SpecSanitize == InitSanitize /\ [][NextSanitize]_vars

(* ------------------------------ tail_lines ----------------------------- *)
\* the bytes a file is made of: "a", "b" and the newline
FileBytes == {97, 98, 10}

RECURSIVE SplitLinesFrom(_, _, _)
\* bytes.splitlines() / str.splitlines(): cur is the line being read, acc the
\* lines read; a newline ends a line, the end of the text ends a non-empty one
SplitLinesFrom(s, cur, acc) ==
  IF s = <<>> THEN (IF cur = <<>> THEN acc ELSE Append(acc, cur))
  ELSE IF Head(s) = 10 THEN SplitLinesFrom(Tail(s), <<>>, Append(acc, cur))
  ELSE SplitLinesFrom(Tail(s), Append(cur, Head(s)), acc)

SplitLines(s) == SplitLinesFrom(s, <<>>, <<>>)

RECURSIVE JoinBlocks(_, _)
\* sep.join(blocks)
JoinBlocks(sep, blocks) ==
  IF blocks = <<>> THEN <<>>
  ELSE IF Len(blocks) = 1 THEN blocks[1]
  ELSE blocks[1] \o sep \o JoinBlocks(sep, Tail(blocks))

\* len(b"\n".join(blocks).splitlines()) <= n, negated
EnoughLines(blocks, n) == Len(SplitLines(JoinBlocks(<<10>>, blocks))) > n

RECURSIVE TailReadLoop(_, _, _, _, _)
\* while pos > 0 and len(b"\n".join(blocks).splitlines()) <= n: read the
\* to_read bytes before pos, put them in front, double to_read
TailReadLoop(bytes, n, pos, to_read, blocks) ==
  IF pos > 0 /\ ~EnoughLines(blocks, n)
  THEN LET read_size == IF to_read < pos THEN to_read ELSE pos
           data == SubSeq(bytes, pos - read_size + 1, pos)
       IN  TailReadLoop(bytes, n, pos - read_size,
                       IF to_read < Len(bytes) THEN to_read * 2 ELSE to_read,
                       <<data>> \o blocks)
  ELSE blocks

\* [sanitize_line(l) for l in ls]
SanitizeAll(ls) == IF ls = <<>> THEN <<>> ELSE [i \in 1..Len(ls) |-> SanitizeLine(ls[i])]

\* tail_lines(path, n) on a readable file: the list of lines it returns.  On a
\* remote host the lines are those tail -n prints; locally the file is read
\* backwards from its end in blocks of n * avg_line_len bytes, doubling
TailLines(bytes, n) ==
  IF remote THEN SanitizeAll(LastN(SplitLines(bytes), n))
  ELSE IF n <= 0 THEN <<>>
  ELSE LET blocks == TailReadLoop(bytes, n, Len(bytes), n * AVG_LINE_LEN, <<>>)
           ls == SplitLines(JoinBlocks(<<>>, blocks))
           tail == IF Len(ls) >= n THEN SubSeq(ls, Len(ls) - n + 1, Len(ls)) ELSE ls
       IN  SanitizeAll(tail)

InitTail ==
  /\ ModelInit
  /\ NoResolution
  /\ NoTui
  /\ NoLoadRun
  /\ NoSanitize
  /\ NoFilter
  /\ tail_bytes \in SeqsUpTo(FileBytes, MaxFileBytes)
  /\ tail_n \in 0..MaxTailN
  /\ tail_out = <<>>
  /\ tail_done = FALSE
  /\ cmd_out = <<>>
  /\ snap_out = <<>>
  /\ snap_kind = "none"

\* tail_lines(path, n) on a readable file
ApplyTailLines ==
  /\ ~tail_done
  /\ tail_out' = TailLines(tail_bytes, tail_n)
  /\ tail_done' = TRUE
  /\ UNCHANGED <<tail_bytes, tail_n, cmd_out, snap_out, snap_kind, modelVars, matchVars,
                 tuiVars, resolveVars, sanVars, filterVars>>

NextTail == ApplyTailLines

SpecTail == InitTail /\ [][NextTail]_vars

(* ------------------- snapshots of a command's output ------------------- *)
\* ls[-n:] for n >= 0: the last n items, and the whole list for n = 0
SliceLast(ls, n) ==
  IF n = 0 \/ n >= Len(ls) THEN ls ELSE SubSeq(ls, Len(ls) - n + 1, Len(ls))

\* lines = [sanitize_line(l) for l in out.splitlines()]; return lines[-n:]
SnapshotLines(out, n) == SliceLast(SanitizeAll(SplitLines(out)), n)

\* the command has ended with code 0 and printed cmd_out
InitSnapshot ==
  /\ ModelInit
  /\ NoResolution
  /\ NoTui
  /\ NoLoadRun
  /\ NoSanitize
  /\ NoFilter
  /\ tail_bytes = <<>>
  /\ tail_out = <<>>
  /\ tail_done = FALSE
  /\ tail_n \in 0..MaxTailN
  /\ cmd_out \in SeqsUpTo(FileBytes, MaxFileBytes)
  /\ snap_out = <<>>
  /\ snap_kind = "none"

\* docker_logs_tail(service, n, ...) when docker logs ends with code 0
SnapshotDocker ==
  /\ snap_kind = "none"
  /\ snap_out' = SnapshotLines(cmd_out, tail_n)
  /\ snap_kind' = "docker"
  /\ UNCHANGED <<tail_bytes, tail_n, tail_out, tail_done, cmd_out, modelVars, matchVars,
                 tuiVars, resolveVars, sanVars, filterVars>>

\* tail_lines(path, n) on a remote host when tail ends with code 0
SnapshotRemoteFile ==
  /\ snap_kind = "none"
  /\ remote
  /\ snap_out' = SnapshotLines(cmd_out, tail_n)
  /\ snap_kind' = "ssh"
  /\ UNCHANGED <<tail_bytes, tail_n, tail_out, tail_done, cmd_out, modelVars, matchVars,
                 tuiVars, resolveVars, sanVars, filterVars>>

NextSnapshot ==
  \/ SnapshotDocker
  \/ SnapshotRemoteFile

SpecSnapshot == InitSnapshot /\ [][NextSnapshot]_vars

(* ------------------------------ filtering ------------------------------ *)
\* the characters of a buffered line: a capital, a small letter, an underscore
\* and a blank
FilterChars == {"O", "s", "_", " "}

\* LEVELS: ANY and one level word
LEVELS == {ANY, <<"O", "S">>}

\* the search texts: none, one letter, a letter and a blank
TextFilters == {<<>>, <<"o">>, <<"S", " ">>}

\* \w: letters, digits and the underscore
IsWordChar(c) == c \in {"O", "S", "o", "s", "_"}

\* \b before position p of line: exactly one of the characters around it is a
\* word character (the ends of the line count as none)
WordBoundary(line, p) ==
  ((p - 1 \in 1..Len(line)) /\ IsWordChar(line[p - 1]))
    # ((p \in 1..Len(line)) /\ IsWordChar(line[p]))

\* a level test that looks for the word anywhere in the line
PassesLevelFilterSubstring(level, line) ==
  IF level = ANY THEN TRUE ELSE Contains(Lower(level), Lower(line))

\* _passes_level_filter: re.search(rf"\b{re.escape(level)}\b", line, re.IGNORECASE)
PassesLevelFilter(level, line) ==
  IF level = ANY THEN TRUE
  ELSE \E i \in 1..(Len(line) - Len(level) + 1) :
         /\ WordBoundary(line, i)
         /\ Lower(SubSeq(line, i, i + Len(level) - 1)) = Lower(level)
         /\ WordBoundary(line, i + Len(level))

\* _passes_text_filter: not self.text_filter or self.text_filter.lower() in line.lower()
PassesTextFilter(text, line) ==
  IF text = <<>> THEN TRUE ELSE Contains(Lower(text), Lower(line))

RECURSIVE FilteredLinesEither(_, _, _)
\* a loop that keeps the lines passing one of the two filters
FilteredLinesEither(data, level, text) ==
  IF data = <<>> THEN <<>>
  ELSE (IF PassesLevelFilter(level, Head(data)) \/ PassesTextFilter(text, Head(data))
        THEN <<Head(data)>> ELSE <<>>) \o FilteredLinesEither(Tail(data), level, text)

RECURSIVE FilteredLines(_, _, _)
\* for ln in data: if self._passes_level_filter(ln) and self._passes_text_filter(ln):
\*     result.append(ln)
FilteredLines(data, level, text) ==
  IF data = <<>> THEN <<>>
  ELSE (IF PassesLevelFilter(level, Head(data)) /\ PassesTextFilter(text, Head(data))
        THEN <<Head(data)>> ELSE <<>>) \o FilteredLines(Tail(data), level, text)

InitFilter ==
  /\ ModelInit
  /\ NoResolution
  /\ NoTui
  /\ NoLoadRun
  /\ NoSanitize
  /\ NoTail
  /\ text_lines \in SeqsUpTo(SeqsUpTo(FilterChars, MaxLineLen), MaxBufLines)
  /\ level_filter \in LEVELS
  /\ text_filter \in TextFilters
  /\ filtered = <<>>
  /\ fcalls = 0
  /\ lock_owner = "free"
  /\ ui_pc = "idle"
  /\ fw_pc = "off"
  /\ ui_data = <<>>
  /\ fw_line = <<>>
  /\ NoWeb

\* a call that takes the lines it returns out of the buffer
CallFilteredLinesDraining ==
  /\ fcalls < MaxFilterCalls
  /\ filtered' = FilteredLines(text_lines, level_filter, text_filter)
  /\ text_lines' = SelectSeq(text_lines, LAMBDA ln :
                      ~(PassesLevelFilter(level_filter, ln) /\ PassesTextFilter(text_filter, ln)))
  /\ fcalls' = fcalls + 1
  /\ UNCHANGED <<level_filter, text_filter, lockVars, webVars, modelVars, matchVars,
                 tuiVars, resolveVars, sanVars, tailVars>>

\* filtered_lines(): data = list(self.lines) under the lock, then the loop
CallFilteredLines ==
  /\ fcalls < MaxFilterCalls
  /\ filtered' = FilteredLines(text_lines, level_filter, text_filter)
  /\ fcalls' = fcalls + 1
  /\ UNCHANGED <<text_lines, level_filter, text_filter, lockVars, webVars, modelVars,
                 matchVars, tuiVars, resolveVars, sanVars, tailVars>>

\* str.upper() of one character
UpperChar(c) ==
  CASE c = "o" -> "O"
    [] c = "s" -> "S"
    [] OTHER -> c

\* str.upper()
Upper(s) == IF s = <<>> THEN <<>> ELSE [i \in 1..Len(s) |-> UpperChar(s[i])]

\* log_web.line_passes_filters(line, level, q)
LinePassesFilters(line, level, q) ==
  IF level # <<>> /\ Upper(level) # ANY /\ ~Contains(Upper(level), Upper(line))
  THEN FALSE
  ELSE IF q # <<>> /\ ~Contains(Lower(q), Lower(line)) THEN FALSE
  ELSE TRUE

\* log_web /stream: every line of the source goes through line_passes_filters
\* and is written as an event when it passes
StreamLines ==
  /\ ~web_done
  /\ web_sent' = SelectSeq(text_lines, LAMBDA ln : LinePassesFilters(ln, level_filter, text_filter))
  /\ web_done' = TRUE
  /\ UNCHANGED <<text_lines, level_filter, text_filter, filtered, fcalls, lockVars, serverVars, modelVars,
                 matchVars, tuiVars, resolveVars, sanVars, tailVars>>

NextFilter ==
  \/ CallFilteredLines
  \/ StreamLines

SpecFilter == InitFilter /\ [][NextFilter]_vars

(* ----------------------- the lock of a LogModel ------------------------ *)
\* the lines a source delivers
SourceLines == {<<"O", "S">>, <<"s">>}

\* everything but the buffer, the filters and the lock
lockFrame == <<webVars, modelVars, matchVars, tuiVars, resolveVars, sanVars, tailVars>>

\* a follow thread runs beside the UI thread; the buffer holds some lines
InitLock ==
  /\ ModelInit
  /\ NoResolution
  /\ NoTui
  /\ NoLoadRun
  /\ NoSanitize
  /\ NoTail
  /\ text_lines \in SeqsUpTo(SourceLines, MaxBufLines)
  /\ level_filter \in LEVELS
  /\ text_filter \in {<<>>, <<"o">>}
  /\ filtered = <<>>
  /\ fcalls = 0
  /\ lock_owner = "free"
  /\ ui_pc = "idle"
  /\ fw_pc = "read"
  /\ ui_data = <<>>
  /\ fw_line = <<>>
  /\ NoWeb

\* filtered_lines: with self.lock:   (waits while the lock is held)
ReaderAcquire ==
  /\ ui_pc = "idle"
  /\ fcalls < MaxFilterCalls
  /\ lock_owner = "free"
  /\ lock_owner' = "ui"
  /\ ui_pc' = "copy"
  /\ filtered' = <<>>
  /\ UNCHANGED <<text_lines, level_filter, text_filter, fcalls, fw_pc, ui_data, fw_line,
                 lockFrame>>

\* a reader that keeps the lock while it goes through the lines
ReaderCopyHolding ==
  /\ ui_pc = "copy"
  /\ ui_data' = text_lines
  /\ ui_pc' = "scan"
  /\ UNCHANGED <<text_lines, level_filter, text_filter, filtered, fcalls, lock_owner, fw_pc,
                 fw_line, lockFrame>>

\* data = list(self.lines), and the with block ends
ReaderCopy ==
  /\ ui_pc = "copy"
  /\ ui_data' = text_lines
  /\ lock_owner' = "free"
  /\ ui_pc' = "scan"
  /\ UNCHANGED <<text_lines, level_filter, text_filter, filtered, fcalls, fw_pc, fw_line,
                 lockFrame>>

\* for ln in data: one line is tested and appended to result; after the last
\* one, return result
ReaderScan ==
  /\ ui_pc = "scan"
  /\ IF ui_data = <<>>
     THEN /\ ui_pc' = "idle"
          /\ fcalls' = fcalls + 1
          /\ UNCHANGED <<filtered, ui_data>>
     ELSE /\ filtered' = filtered \o FilteredLines(<<Head(ui_data)>>, level_filter, text_filter)
          /\ ui_data' = Tail(ui_data)
          /\ UNCHANGED <<ui_pc, fcalls>>
  /\ UNCHANGED <<text_lines, level_filter, text_filter, lock_owner, fw_pc, fw_line, lockFrame>>

\* load: data, err, resolved = docker_logs_tail(...)   (a subprocess, no lock)
LoaderFetch ==
  /\ ui_pc = "idle"
  /\ fcalls < MaxFilterCalls
  /\ \E ls \in SeqsUpTo(SourceLines, 1) : ui_data' = ls
  /\ ui_pc' = "ld_lock"
  /\ UNCHANGED <<text_lines, level_filter, text_filter, filtered, fcalls, lock_owner, fw_pc,
                 fw_line, lockFrame>>

\* load: with self.lock:
LoaderAcquire ==
  /\ ui_pc = "ld_lock"
  /\ lock_owner = "free"
  /\ lock_owner' = "ui"
  /\ ui_pc' = "extend"
  /\ UNCHANGED <<text_lines, level_filter, text_filter, filtered, fcalls, fw_pc, ui_data,
                 fw_line, lockFrame>>

\* load: for ln in data: self.lines.append(ln), and the with block ends
LoaderExtend ==
  /\ ui_pc = "extend"
  /\ text_lines' = LastN(text_lines \o ui_data, MaxBufLines)
  /\ ui_data' = <<>>
  /\ lock_owner' = "free"
  /\ ui_pc' = "idle"
  /\ fcalls' = fcalls + 1
  /\ UNCHANGED <<level_filter, text_filter, filtered, fw_pc, fw_line, lockFrame>>

\* follow thread: line = stdout.readline()   (blocks until the source has a line)
WriterReadLine ==
  /\ fw_pc = "read"
  /\ \E ln \in SourceLines : fw_line' = ln
  /\ fw_pc' = "lock"
  /\ UNCHANGED <<text_lines, level_filter, text_filter, filtered, fcalls, lock_owner, ui_pc,
                 ui_data, lockFrame>>

\* follow thread: with self.lock:
WriterAcquire ==
  /\ fw_pc = "lock"
  /\ lock_owner = "free"
  /\ lock_owner' = "follow"
  /\ fw_pc' = "append"
  /\ UNCHANGED <<text_lines, level_filter, text_filter, filtered, fcalls, ui_pc, ui_data,
                 fw_line, lockFrame>>

\* follow thread: self.lines.append(sanitize_line(line.rstrip("\n"))), and the with
\* block ends
WriterAppend ==
  /\ fw_pc = "append"
  /\ text_lines' = LastN(Append(text_lines, fw_line), MaxBufLines)
  /\ fw_line' = <<>>
  /\ lock_owner' = "free"
  /\ fw_pc' = "read"
  /\ UNCHANGED <<level_filter, text_filter, filtered, fcalls, ui_pc, ui_data, lockFrame>>

NextLock ==
  \/ ReaderAcquire
  \/ ReaderCopy
  \/ ReaderScan
  \/ LoaderFetch
  \/ LoaderAcquire
  \/ LoaderExtend
  \/ WriterReadLine
  \/ WriterAcquire
  \/ WriterAppend

SpecLock == InitLock /\ [][NextLock]_vars

(* ------------------------ the web server (log_web) --------------------- *)
MaxPipe == 1

\* the values a token takes, in the environment and in a request ("": none)
TokenValues == {"", "a", "b"}

\* the endpoints that start a docker command or a database query
ProtectedPaths == {"/containers", "/stream", "/db/tables", "/db/table"}

\* what `docker logs -f` delivers: a line, or bytes that do not decode as text
PipeItems == {"line", "bad"}

\* everything but the web server
webFrame == <<text_lines, level_filter, text_filter, filtered, fcalls, lockVars, web_sent,
              web_done, modelVars, matchVars, tuiVars, resolveVars, sanVars, tailVars>>

\* log_web.check_token(query)
CheckToken(tok) == IF TOKEN = "" THEN TRUE ELSE tok = TOKEN

\* log_web.check_db_token(query)
CheckDbToken(tok) == IF DB_TOKEN = "" THEN TRUE ELSE tok = DB_TOKEN

\* _db_exec_psql gets as far as executing the SQL: _db_connect found the docker
\* exec settings, or the direct settings and psycopg2.connect succeeded
DbExecRuns(conn_ok) == IF db_mode = "docker" THEN TRUE ELSE db_mode = "rds" /\ conn_ok

\* _db_exec_psql in docker exec mode starts `docker exec ... psql`
DbExecUsesDocker == db_mode = "docker"

\* the server starts with the settings of its environment; no request yet
InitWeb ==
  /\ ModelInit
  /\ remote = FALSE
  /\ NoResolution
  /\ NoTui
  /\ NoLoadRun
  /\ NoSanitize
  /\ NoTail
  /\ text_lines = <<>>
  /\ level_filter = ANY
  /\ text_filter = <<>>
  /\ filtered = <<>>
  /\ fcalls = 0
  /\ lock_owner = "free"
  /\ ui_pc = "idle"
  /\ fw_pc = "off"
  /\ ui_data = <<>>
  /\ fw_line = <<>>
  /\ web_sent = <<>>
  /\ web_done = FALSE
  /\ TOKEN \in TokenValues
  /\ DB_TOKEN \in TokenValues
  /\ DB_TABLE_WHITELIST \in BOOLEAN
  /\ db_mode \in {"none", "rds", "docker"}
  /\ NoRequest
  /\ NoStream

\* do_GET, path == "/": the page is served without a token check
GetIndex ==
  /\ \E tok \in TokenValues : req_token' = tok
  /\ req_path' = "/"
  /\ resp_status' = 200
  /\ docker_ran' = FALSE
  /\ db_ran' = FALSE
  /\ UNCHANGED <<cfgVars, streamVars, webFrame>>

\* do_GET, path == "/containers": check_token, then list_containers()
GetContainers ==
  /\ \E tok \in TokenValues :
       /\ req_token' = tok
       /\ IF ~CheckToken(tok)
          THEN /\ resp_status' = 401
               /\ docker_ran' = FALSE
          ELSE /\ docker_ran' = TRUE
               /\ \E err \in BOOLEAN : resp_status' = IF err THEN 502 ELSE 200
  /\ req_path' = "/containers"
  /\ db_ran' = FALSE
  /\ UNCHANGED <<cfgVars, streamVars, webFrame>>

\* do_GET, path == "/stream", up to the first event: check_token, the container
\* parameter, Popen of `docker logs -f`, the response headers
GetStream ==
  /\ s_pc \in {"idle", "returned"}
  /\ \E tok \in TokenValues :
       /\ req_token' = tok
       /\ IF ~CheckToken(tok)
          THEN /\ resp_status' = 401
               /\ docker_ran' = FALSE
               /\ UNCHANGED streamVars
          ELSE \E outcome \in {"no_name", "popen_failed", "started"} :
                 IF outcome = "no_name"
                 THEN /\ resp_status' = 400
                      /\ docker_ran' = FALSE
                      /\ UNCHANGED streamVars
                 ELSE IF outcome = "popen_failed"
                 THEN /\ resp_status' = 502
                      /\ docker_ran' = FALSE
                      /\ UNCHANGED streamVars
                 ELSE /\ resp_status' = 200
                      /\ docker_ran' = TRUE
                      /\ s_pc' = "loop"
                      /\ sproc' = "running"
                      /\ s_client' = TRUE
                      /\ s_pipe' = <<>>
                      /\ s_werr' = FALSE
  /\ req_path' = "/stream"
  /\ db_ran' = FALSE
  /\ UNCHANGED <<cfgVars, webFrame>>

\* do_GET, path == "/db/tables": check_db_token, then db_list_tables(), which
\* answers from the whitelist when there is one and queries pg_tables otherwise
GetDbTables ==
  /\ \E tok \in TokenValues :
       /\ req_token' = tok
       /\ IF ~CheckDbToken(tok)
          THEN /\ resp_status' = 401
               /\ db_ran' = FALSE
               /\ docker_ran' = FALSE
          ELSE IF DB_TABLE_WHITELIST
          THEN /\ resp_status' = 200
               /\ db_ran' = FALSE
               /\ docker_ran' = FALSE
          ELSE \E conn_ok \in BOOLEAN :
                 IF ~DbExecRuns(conn_ok)
                 THEN /\ resp_status' = 502
                      /\ db_ran' = FALSE
                      /\ docker_ran' = FALSE
                 ELSE /\ db_ran' = TRUE
                      /\ docker_ran' = DbExecUsesDocker
                      /\ \E query_ok \in BOOLEAN :
                           resp_status' = IF query_ok THEN 200 ELSE 502
  /\ req_path' = "/db/tables"
  /\ UNCHANGED <<cfgVars, streamVars, webFrame>>

\* do_GET, path == "/db/table": check_db_token, int() of limit and offset (a
\* ValueError ends the handler without a response), then db_select_table(),
\* which refuses an invalid or not whitelisted name and queries otherwise
GetDbTable ==
  /\ \E tok \in TokenValues :
       /\ req_token' = tok
       /\ IF ~CheckDbToken(tok)
          THEN /\ resp_status' = 401
               /\ db_ran' = FALSE
               /\ docker_ran' = FALSE
          ELSE \E params \in {"bad_int", "bad_name", "not_listed", "good"} :
                 IF params = "bad_int"
                 THEN /\ resp_status' = 0
                      /\ db_ran' = FALSE
                      /\ docker_ran' = FALSE
                 ELSE IF params = "bad_name"
                 THEN /\ resp_status' = 400
                      /\ db_ran' = FALSE
                      /\ docker_ran' = FALSE
                 ELSE IF DB_TABLE_WHITELIST /\ params = "not_listed"
                 THEN /\ resp_status' = 400
                      /\ db_ran' = FALSE
                      /\ docker_ran' = FALSE
                 ELSE \E conn_ok \in BOOLEAN :
                        IF ~DbExecRuns(conn_ok)
                        THEN /\ resp_status' = 400
                             /\ db_ran' = FALSE
                             /\ docker_ran' = FALSE
                        ELSE /\ db_ran' = TRUE
                             /\ docker_ran' = DbExecUsesDocker
                             /\ \E query_ok \in BOOLEAN :
                                  resp_status' = IF query_ok THEN 200 ELSE 400
  /\ req_path' = "/db/table"
  /\ UNCHANGED <<cfgVars, streamVars, webFrame>>

\* do_GET, any other path: 404
GetOther ==
  /\ \E tok \in TokenValues : req_token' = tok
  /\ req_path' = "/other"
  /\ resp_status' = 404
  /\ docker_ran' = FALSE
  /\ db_ran' = FALSE
  /\ UNCHANGED <<cfgVars, streamVars, webFrame>>

\* write_event(obj): wfile.write and flush inside try/except Exception: pass;
\* the write to a client that has gone raises, and the exception is dropped
WriteEventFails(written) == written /\ ~s_client

\* the container writes a line and docker logs passes it on
ContainerEmit ==
  /\ sproc = "running"
  /\ Len(s_pipe) < MaxPipe
  /\ \E item \in PipeItems : s_pipe' = Append(s_pipe, item)
  /\ UNCHANGED <<s_pc, sproc, s_client, s_werr, cfgVars, reqVars, webFrame>>

\* the docker logs process ends by itself (the container stops or is removed)
LogsProcExit ==
  /\ sproc = "running"
  /\ sproc' = "exited"
  /\ UNCHANGED <<s_pc, s_client, s_pipe, s_werr, cfgVars, reqVars, webFrame>>

\* the browser closes the EventSource or goes away
ClientDisconnect ==
  /\ s_pc \in {"loop", "finally"}
  /\ s_client
  /\ s_client' = FALSE
  /\ UNCHANGED <<s_pc, sproc, s_pipe, s_werr, cfgVars, reqVars, webFrame>>

\* while True: line = stdout.readline() returns a line: it is written as an event
\* when line_passes_filters accepts it, and the loop goes on. Bytes that do not
\* decode raise UnicodeDecodeError out of the try body.
StreamReadLine ==
  /\ s_pc = "loop"
  /\ s_pipe # <<>>
  /\ s_pipe' = Tail(s_pipe)
  /\ IF Head(s_pipe) = "bad"
     THEN /\ s_pc' = "finally"
          /\ UNCHANGED s_werr
     ELSE /\ s_pc' = "loop"
          /\ \E passes \in BOOLEAN :
               s_werr' = IF WriteEventFails(passes) THEN TRUE ELSE s_werr
  /\ UNCHANGED <<sproc, s_client, cfgVars, reqVars, webFrame>>

\* readline() returns "" at the end of the output: proc.poll() is not None, break,
\* then the rest of stderr is written as an event. With the process running and
\* nothing to read, readline() blocks.
StreamReadEof ==
  /\ s_pc = "loop"
  /\ s_pipe = <<>>
  /\ sproc # "running"
  /\ s_pc' = "finally"
  /\ \E err_tail \in BOOLEAN :
       s_werr' = IF WriteEventFails(err_tail) THEN TRUE ELSE s_werr
  /\ UNCHANGED <<sproc, s_client, s_pipe, cfgVars, reqVars, webFrame>>

\* finally: if proc.poll() is None: proc.terminate(); then the handler returns
StreamFinally ==
  /\ s_pc = "finally"
  /\ sproc' = IF sproc = "running" THEN "terminated" ELSE sproc
  /\ s_pc' = "returned"
  /\ UNCHANGED <<s_client, s_pipe, s_werr, cfgVars, reqVars, webFrame>>

NextWeb ==
  \/ GetIndex
  \/ GetContainers
  \/ GetStream
  \/ GetDbTables
  \/ GetDbTable
  \/ GetOther
  \/ ContainerEmit
  \/ LogsProcExit
  \/ ClientDisconnect
  \/ StreamReadLine
  \/ StreamReadEof
  \/ StreamFinally

SpecWeb == InitWeb /\ [][NextWeb]_vars

\* the handler thread is scheduled whenever it can take a step, and the
\* container keeps producing lines for as long as docker logs runs
SpecWebFair ==
  /\ InitWeb
  /\ [][NextWeb]_vars
  /\ WF_vars(ContainerEmit)
  /\ WF_vars(StreamReadLine)
  /\ WF_vars(StreamReadEof)
  /\ WF_vars(StreamFinally)

(* ------------------------- the viewer (LogTUI) ------------------------ *)
\* The viewer holds one LogModel per service.  Each LogModel method is taken here
\* by its effect on follow_enabled and _follow_thread of the model it is called on:
\* the states it can leave them in, and whether it raises.

\* a stop_follow that leaves the model as it is
StopFollowOutcomesNone(m) == {[m |-> m, raised |-> FALSE]}

\* LogModel.stop_follow: follow_enabled = False and _follow_thread = None; the join
\* may time out on a running thread, which then runs on without a handle; the
\* poll of a _docker_proc that a running thread has just set to None raises
\* before the handle is cleared
StopFollowOutcomes(m) ==
  {[m |-> ModelState(FALSE, "none", m.orphan), raised |-> FALSE]}
  \cup (IF m.follow_thread = "alive"
        THEN {[m |-> ModelState(FALSE, "none", TRUE), raised |-> FALSE]}
        ELSE {})
  \cup (IF m.follow_thread = "alive" \/ m.orphan
        THEN {[m |-> ModelState(FALSE, m.follow_thread, m.orphan), raised |-> TRUE]}
        ELSE {})

\* LogModel.load: stop_follow, then the probe, whose timeout raises
LoadOutcomes(m) ==
  StopFollowOutcomes(m)
  \cup {[m |-> o.m, raised |-> TRUE] : o \in {x \in StopFollowOutcomes(m) : ~x.raised}}

\* LogModel.start_follow: nothing when the thread of the handle is alive; else
\* follow_enabled = True, then the probe (whose timeout raises) and a new thread
StartFollowOutcomes(m) ==
  IF m.follow_thread = "alive"
  THEN {[m |-> m, raised |-> FALSE]}
  ELSE {[m |-> ModelState(TRUE, "alive", m.orphan), raised |-> FALSE],
        [m |-> ModelState(TRUE, m.follow_thread, m.orphan), raised |-> TRUE]}

\* LogModel.toggle_follow
ToggleFollowOutcomes(m) ==
  IF m.follow_enabled THEN StopFollowOutcomes(m) ELSE StartFollowOutcomes(m)

\* the UI thread calls a method on the active model and goes on at next; an
\* exception leaves LogTUI.run, and main's finally calls shutdown
TuiCall(outcomes, next) ==
  \E o \in outcomes :
    /\ models' = [models EXCEPT ![active_key] = o.m]
    /\ IF o.raised
       THEN upc' = "shutdown" /\ ukey' = 1
       ELSE upc' = next /\ UNCHANGED ukey

\* LogTUI.__init__: the default service is active; self.active_model.load()
\* (an exception here is raised before main's try)
TuiInitialLoad ==
  /\ upc = "init"
  /\ \E o \in LoadOutcomes(models[active_key]) :
       /\ models' = [models EXCEPT ![active_key] = o.m]
       /\ upc' = IF o.raised THEN "ended" ELSE "run"
  /\ UNCHANGED <<active_key, ukey, u_was, modelVars, matchVars, cm_was, textVars>>

\* keys 1..4: self.switch_service(key);  if key == self.active_key: return
TuiPressSwitch ==
  /\ upc = "run"
  /\ \E key \in Keys :
       /\ ukey' = key
       /\ upc' = IF key = active_key THEN "run" ELSE "sw_stop"
  /\ UNCHANGED <<active_key, models, u_was, modelVars, matchVars, cm_was, textVars>>

\* self.active_model.stop_follow()   (switch_service)
TuiSwitchStop ==
  /\ upc = "sw_stop"
  /\ \E o \in StopFollowOutcomes(models[active_key]) :
       /\ models' = [models EXCEPT ![active_key] = o.m]
       /\ upc' = IF o.raised THEN "shutdown" ELSE "sw_set"
       /\ ukey' = IF o.raised THEN 1 ELSE ukey
  /\ UNCHANGED <<active_key, u_was, modelVars, matchVars, cm_was, textVars>>

\* self.active_key = key; self.active_model = self.models[self.active_key]
TuiSwitchSet ==
  /\ upc = "sw_set"
  /\ active_key' = ukey
  /\ upc' = "sw_load"
  /\ UNCHANGED <<models, ukey, u_was, modelVars, matchVars, cm_was, textVars>>

\* self.active_model.load()   (switch_service)
TuiSwitchLoad ==
  /\ upc = "sw_load"
  /\ TuiCall(LoadOutcomes(models[active_key]), "run")
  /\ UNCHANGED <<active_key, u_was, modelVars, matchVars, cm_was, textVars>>

\* key r (also t, +, -): reload_tail;
\* was_following = self.active_model.follow_enabled; self.active_model.stop_follow()
TuiReloadStop ==
  /\ upc = "run"
  /\ u_was' = models[active_key].follow_enabled
  /\ TuiCall(StopFollowOutcomes(models[active_key]), "rt_load")
  /\ UNCHANGED <<active_key, modelVars, matchVars, cm_was, textVars>>

\* self.active_model.load()   (reload_tail)
TuiReloadLoad ==
  /\ upc = "rt_load"
  /\ TuiCall(LoadOutcomes(models[active_key]), "rt_start")
  /\ UNCHANGED <<active_key, u_was, modelVars, matchVars, cm_was, textVars>>

\* a reload that leaves follow off
TuiReloadStartNever ==
  /\ upc = "rt_start"
  /\ upc' = "run"
  /\ u_was' = FALSE
  /\ UNCHANGED <<active_key, models, ukey, modelVars, matchVars, cm_was, textVars>>

\* if was_following: self.active_model.start_follow()
TuiReloadStart ==
  /\ upc = "rt_start"
  /\ IF u_was
     THEN TuiCall(StartFollowOutcomes(models[active_key]), "run")
     ELSE upc' = "run" /\ UNCHANGED <<models, ukey>>
  /\ u_was' = FALSE
  /\ UNCHANGED <<active_key, modelVars, matchVars, cm_was, textVars>>

\* key f: self.active_model.toggle_follow()
TuiToggleFollow ==
  /\ upc = "run"
  /\ TuiCall(ToggleFollowOutcomes(models[active_key]), "run")
  /\ UNCHANGED <<active_key, u_was, modelVars, matchVars, cm_was, textVars>>

\* container menu, Enter: self.active_model.stop_follow()
TuiContainerStop ==
  /\ upc = "run"
  /\ TuiCall(StopFollowOutcomes(models[active_key]), "cm_load")
  /\ cm_was' = models[active_key].follow_enabled
  /\ UNCHANGED <<active_key, u_was, modelVars, matchVars, textVars>>

\* self.active_model.docker_service = chosen; self.active_model.load()
TuiContainerLoad ==
  /\ upc = "cm_load"
  /\ TuiCall(LoadOutcomes(models[active_key]), "run")
  /\ UNCHANGED <<active_key, u_was, modelVars, matchVars, cm_was, textVars>>

\* key q: self.shutdown(); return
TuiPressQuit ==
  /\ upc = "run"
  /\ upc' = "shutdown"
  /\ ukey' = 1
  /\ UNCHANGED <<active_key, models, u_was, modelVars, matchVars, cm_was, textVars>>

\* for m in self.models.values(): m.stop_follow()   (an exception ends the loop)
TuiShutdown ==
  /\ upc = "shutdown"
  /\ \E o \in StopFollowOutcomes(models[ukey]) :
       /\ models' = [models EXCEPT ![ukey] = o.m]
       /\ IF o.raised \/ ukey = NumServices
          THEN upc' = "ended" /\ UNCHANGED ukey
          ELSE ukey' = ukey + 1 /\ UNCHANGED upc
  /\ UNCHANGED <<active_key, u_was, modelVars, matchVars, cm_was, textVars>>

\* a follow thread returns: the one a model holds, or one without a handle
TuiThreadEnds ==
  /\ upc # "off"
  /\ \E k \in Keys :
       \/ /\ models[k].follow_thread = "alive"
          /\ models' = [models EXCEPT ![k].follow_thread = "ended"]
       \/ /\ models[k].orphan
          /\ models' = [models EXCEPT ![k].orphan = FALSE]
  /\ UNCHANGED <<active_key, upc, ukey, u_was, modelVars, matchVars, cm_was, textVars>>

\* the viewer starts: one LogModel per service, the default service active
InitTui ==
  /\ ModelInit
  /\ NoResolution
  /\ active_key \in Keys
  /\ models = [k \in Keys |-> ModelState(FALSE, "none", FALSE)]
  /\ upc = "init"
  /\ ukey = 1
  /\ u_was = FALSE
  /\ cm_was = FALSE
  /\ NoText

NextTui ==
  \/ TuiInitialLoad
  \/ TuiPressSwitch
  \/ TuiSwitchStop
  \/ TuiSwitchSet
  \/ TuiSwitchLoad
  \/ TuiReloadStop
  \/ TuiReloadLoad
  \/ TuiReloadStart
  \/ TuiToggleFollow
  \/ TuiContainerStop
  \/ TuiContainerLoad
  \/ TuiPressQuit
  \/ TuiShutdown
  \/ TuiThreadEnds

SpecTui == InitTui /\ [][NextTui]_vars

(* ------------------------------- claims ------------------------------- *)
Started == {t \in Threads : tpc[t] # "unborn"}

StopFollowPcs == {"stop_follow", "sf_check", "sf_poll1", "sf_term", "sf_grace",
                  "sf_poll2", "sf_kill", "sf_finally", "sf_join"}

\* C1: the buffer never holds more than MAX_LINES lines, and it is the last
\* min(k, MAX_LINES) of the k lines appended since the last clear, in append order
\* (the oldest line is the one evicted), whoever appended them
C1_BufferIsLastLines ==
  /\ Len(lines) <= MAX_LINES
  /\ lines = LastN(hist, MAX_LINES)

\* more lines than the capacity were appended, by the UI thread and by a follow thread
C1_Witness ==
  /\ Len(hist) = MAX_LINES + 1
  /\ hist[1] # hist[Len(hist)]
  /\ \E i \in 1..Len(hist) : hist[i].by = 0
  /\ \E i \in 1..Len(hist) : hist[i].by # 0

\* C2: at most one follow session (a follow thread that can still append to the
\* buffer) exists at any time
C2_AtMostOneSession == Cardinality({t \in Threads : Alive(t)}) <= 1

\* C3: once load() has cleared the buffer, the buffer never holds a line appended by
\* a follow session that was running before that clear
C3_NoStaleAppend == \A i \in 1..Len(lines) : lines[i].by \notin stale

\* C4: when stop_follow is called while no follow session exists, no step taken
\* until it returns changes the buffer or the SourceRef or raises, and it returns
\* with follow disabled and no session handle
C4_StopFollowIdle ==
  [][(\/ mpc = "stop_follow" /\ \A t \in Threads : ~Alive(t)
      \/ mpc \in StopFollowPcs \ {"stop_follow"} /\ idleStop) =>
       /\ lines' = lines
       /\ source_type' = source_type
       /\ source_id' = source_id
       /\ merr' = FALSE
       /\ (mpc' \notin StopFollowPcs => follow_enabled' = FALSE /\ follow_thread' = None)]_vars

\* stop_follow was called twice in a row, with no session and nothing else called
C4_Witness ==
  /\ mpc = "idle"
  /\ nCalls = 2
  /\ stop_event
  /\ lines = <<>>
  /\ Started = {}

\* C5: once stop_follow has returned, the docker logs process of a session it
\* stopped is not running and the service holds no handle of it
C5_ProcessGoneAfterStop ==
  \A t \in stopRet : tkind[t] = "docker" => procst[t] # "running" /\ docker_proc # t

\* C6: once stop_follow has returned, no session it stopped sits in a blocking read
\* that only the source can end
C6_NotBlockedAfterStop == \A t \in stopRet : ~(Alive(t) /\ ReadBlocks(t))

\* C7: when the docker follow command cannot be started the session appends one
\* [docker] line, makes the fallback file the source and goes on as a file follow
C7_SpawnFailureFallsBack ==
  [][\A t \in Threads : (tpc[t] = "d_nospawn" /\ tpc'[t] # "d_nospawn") =>
       /\ lines' = DequeAppend(lines, Line("docker_fallback", t, 0))
       /\ source_type' = "file"
       /\ source_id' = Prefixed("fallback_path")
       /\ tkind'[t] = IF remote THEN "rfile" ELSE "file"
       /\ tpc'[t] = IF remote THEN "r_start" ELSE "f_start"]_vars

\* a session that fell back is reading the file
C7_Witness ==
  \E t \in Threads :
    /\ tpc[t] \in {"f_read", "r_read"}
    /\ \E i \in 1..Len(lines) : lines[i] = Line("docker_fallback", t, 0)

\* C8: when the docker follow process has exited while follow is enabled, the
\* session goes on as a file follow
C8_DockerExitFallsBack ==
  [][\A t \in Threads :
       (/\ tpc[t] = "d_end"
        /\ tpc'[t] # "d_end"
        /\ follow_enabled
        /\ ~stop_event
        /\ procst[lproc[t]] = "exited") => tpc'[t] \in {"f_start", "r_start"}]_vars

PostTruncationOnly ==
  \A i, j \in 1..Len(lines) :
    i < j /\ lines[j].k = "file_log" =>
      /\ lines[i].k = "file_rotation" => lines[j].n >= lines[i].n
      /\ lines[i].k = "file_log" => lines[i].n # lines[j].n

\* C10: a local file follow that has detected a truncation goes on with the file
\* reopened (it never goes round its loop with the handle closed), and after its
\* rotation line only lines written after the truncation are appended, none twice
C10_TruncationReopens ==
  /\ \A t \in Threads : tpc[t] \in {"f_loop", "f_size", "f_read"} => fopen[t]
  /\ PostTruncationOnly

\* C11: a file follow never goes on reading from an offset that lies behind a line
\* of the file it has not read and that was written after the session opened the
\* file (truncation detected or not, no such line is skipped)
C11_NoLineSkipped ==
  [][\A t \in Threads :
       (tpc[t] \in {"f_size", "f_reopen"} /\ tpc'[t] = "f_read" /\ fopen'[t]) =>
         \A i \in 1..Len(file) : i <= last_pos'[t] => file[i] <= read_to[t]]_vars

SourceKinds == {"docker_log", "ssh_log", "file_log"}

\* C12: the lines one follow session read from its source stand in the buffer in
\* the order in which the source produced them
C12_SourceOrder ==
  \A i, j \in 1..Len(lines) :
    (/\ i < j
     /\ lines[i].by = lines[j].by
     /\ lines[i].k = lines[j].k
     /\ lines[i].k \in SourceKinds) => lines[i].n < lines[j].n

\* the buffer holds two lines that one session read from its source
C12_Witness ==
  /\ Len(lines) = 2
  /\ lines[1].by = lines[2].by
  /\ lines[1].k = "file_log"
  /\ lines[2].k = "file_log"

\* C13: start_follow called while a follow session is active is a no-op: no thread
\* and no process is started, no probe is run, and the session handle, the stop
\* signal, the SourceRef and the buffer stay as they are
C13_StartFollowNoOp ==
  [][(mpc = "start_follow" /\ mpc' # mpc /\ \E t \in Threads : Alive(t)) =>
       /\ mpc' # "stf_probe"
       /\ UNCHANGED <<follow_thread, stop_event, source_type, source_id, lines, tpc, procst>>]_vars

\* C15: no outcome of the probe of the container runtime raises out of load() or
\* start_follow
C15_ProbeNeverRaises ==
  [][(mpc \in {"ld_probe", "stf_probe"}) => merr' = FALSE]_vars

\* C16: when the probe does not find the runtime, load() runs no docker logs and
\* ends with the fallback file as its source, and start_follow starts a file follow
\* with the fallback file as its source
C16_UnreachableUsesFile ==
  [][/\ (mpc = "ld_probe" /\ mpc' \notin {"ld_probe", "ld_docker"}) => mpc' = "ld_file"
     /\ (mpc = "ld_file" /\ mpc' # "ld_file") =>
          /\ mpc' = "ld_done"
          /\ source_type' = "file"
          /\ source_id' = Prefixed("fallback_path")
     /\ (/\ mpc = "stf_probe"
         /\ mpc' # "stf_probe"
         /\ ~\E t \in Threads : tpc[t] = "unborn" /\ tpc'[t] = "d_resolve") =>
          \E t \in Threads :
            /\ tpc[t] = "unborn"
            /\ tpc'[t] = IF remote THEN "r_start" ELSE "f_start"
            /\ follow_thread' = t
            /\ source_type' = "file"
            /\ source_id' = Prefixed("fallback_path")]_vars

\* the names the resolution works on
Names == ListDockerContainerNames(running, ps_ok)

NoExact == \A i \in 1..Len(Names) : Names[i] # preferred

\* the positions of the names that contain the token, case-insensitively
Hits(tok) == {i \in 1..Len(Names) : Contains(Lower(tok), Lower(Names[i]))}

Min(S) == CHOOSE x \in S : \A y \in S : x <= y

\* the tokens in their fixed order: the preferred identifier, the preferred
\* identifier with separators normalized, the friendly name with separators
\* normalized (to hyphens, then to underscores)
ClaimTokens ==
  SelectSeq(<<preferred, Replace(preferred, "-", "_"), Replace(friendly, " ", "-"),
              Replace(friendly, " ", "_")>>, LAMBDA tok : tok # <<>>)

\* C17: when a listed name equals the preferred identifier, _best_match_container
\* returns it, wherever it stands in the list and whatever else matches
C17_ExactMatchWins ==
  ("best" \in applied /\ \E i \in 1..Len(Names) : Names[i] = preferred) =>
    candidate = preferred

\* the exact name is listed second, after a name that contains it
C17_Witness ==
  /\ "best" \in applied
  /\ Len(Names) = 2
  /\ Names[2] = preferred
  /\ Names[1] # preferred
  /\ Contains(Lower(preferred), Lower(Names[1]))
  /\ candidate = preferred

\* C18: without an exact match, the result is the first name in list order that
\* contains the first token, in token order, that any name contains
C18_TokenOrderFirst ==
  (/\ "best" \in applied
   /\ NoExact
   /\ \E k \in 1..Len(ClaimTokens) : Hits(ClaimTokens[k]) # {}) =>
     LET k == Min({j \in 1..Len(ClaimTokens) : Hits(ClaimTokens[j]) # {}})
     IN  candidate = Names[Min(Hits(ClaimTokens[k]))]

\* the name listed second contains the preferred identifier, the name listed first
\* only the friendly name: the second is returned
C18_Witness ==
  /\ "best" \in applied
  /\ NoExact
  /\ Len(Names) = 2
  /\ friendly # <<>>
  /\ Hits(preferred) = {2}
  /\ Hits(friendly) = {1}
  /\ candidate = Names[2]

\* C19: when neither equality nor a token matches, the first listed name is
\* returned; no container is returned exactly when there is no list of names
C19_FirstListedOrNone ==
  "best" \in applied =>
    /\ (/\ Names # <<>>
        /\ NoExact
        /\ \A k \in 1..Len(ClaimTokens) : Hits(ClaimTokens[k]) = {}) => candidate = Names[1]
    /\ candidate = NoName <=> Names = <<>>

\* two names are listed, nothing matches, and the first is returned
C19_Witness ==
  /\ "best" \in applied
  /\ Len(Names) = 2
  /\ Names[1] # Names[2]
  /\ NoExact
  /\ \A k \in 1..Len(ClaimTokens) : Hits(ClaimTokens[k]) = {}
  /\ candidate = Names[1]

\* C20: when docker logs can read the preferred identifier, load() reads it and
\* the follow thread follows it
C20_ExactIsAuthoritative ==
  (exact_ok /\ {"tail", "follow"} \subseteq applied) =>
    /\ tail_err = FALSE
    /\ tail_resolved = preferred
    /\ container = preferred

\* C14: in every state of the viewer, every service other than the active one has
\* follow disabled and holds no follow thread
C14_OnlyActiveFollows ==
  \A k \in Keys : k # active_key =>
    /\ ~models[k].follow_enabled
    /\ models[k].follow_thread = "none"

\* the viewer has switched away from a service whose follow thread is still running
C14_Witness ==
  /\ upc = "sw_load"
  /\ \E k \in Keys : k # active_key /\ models[k].orphan

Printable(c) == (32 <= c /\ c <= 126) \/ c >= 160
AllPrintable(s) == \A k \in 1..Len(s) : Printable(s[k])

\* C27: sanitize_line is idempotent.  Whatever the line, sanitizing the sanitized
\* line gives the sanitized line
C27_Idempotent == san_pc = "twice" => san_twice = san_out

\* the pattern matches nowhere in the line, and matches once its BEL characters
\* are taken out
C27_Witness ==
  /\ san_pc = "twice"
  /\ AnsiSub(san_in) = san_in
  /\ LET d == SelectSeq(san_in, LAMBDA c : c # 7)
     IN  d # san_in /\ AnsiSub(d) # d

\* ESC "[", bytes in 0x20-0x3F in any order, one final byte in 0x40-0x7E
IsSeqAnyOrder(s) ==
  /\ Len(s) >= 3 /\ s[1] = 27 /\ s[2] = 91
  /\ \A k \in 3..(Len(s) - 1) : s[k] \in 32..63
  /\ s[Len(s)] \in 64..126

\* the cuts of the line into printable text, a sequence, printable text
Embedded ==
  {c \in (1..Len(san_in)) \X (1..Len(san_in)) :
     /\ c[1] < c[2]
     /\ IsSeqAnyOrder(SubSeq(san_in, c[1], c[2]))
     /\ AllPrintable(SubSeq(san_in, 1, c[1] - 1))
     /\ AllPrintable(SubSeq(san_in, c[2] + 1, Len(san_in)))}

Without(c) == SubSeq(san_in, 1, c[1] - 1) \o SubSeq(san_in, c[2] + 1, Len(san_in))

\* C28: a sequence ESC "[", any number of bytes in 0x20-0x3F in any order, one
\* final byte in 0x40-0x7E, embedded in printable text, is removed whole: the
\* result is the text without it
C28_AnyOrderRemoved ==
  san_pc # "idle" => \A c \in Embedded : san_out = Without(c)

\* C29: the sanitized line holds no tab, no ESC, no character below 32 other than
\* newline and carriage return, and none in 127..159; the printable ASCII
\* characters and those from U+00A0 on that are in no removed escape sequence are
\* kept in their order (spaces set aside when the line held a tab, which becomes
\* four of them)
C29_OnlyPrintableKept ==
  san_pc # "idle" =>
    /\ \A k \in 1..Len(san_out) :
         /\ san_out[k] \notin {9, 27}
         /\ san_out[k] < 32 => san_out[k] \in {10, 13}
         /\ san_out[k] \notin 127..159
    /\ SelectSeq(san_out, LAMBDA c : Printable(c) /\ c # 32)
         = SelectSeq(AnsiSub(san_in), LAMBDA c : Printable(c) /\ c # 32)
    /\ (\A k \in 1..Len(san_in) : san_in[k] # 9) =>
         SelectSeq(san_out, Printable) = SelectSeq(AnsiSub(san_in), Printable)

\* a line with a tab, a control character and a character from U+00A0 on
C29_Witness ==
  /\ san_pc = "once"
  /\ \E i, j, k \in 1..Len(san_in) : san_in[i] = 9 /\ san_in[j] \in {7, 127} /\ san_in[k] = 160
  /\ Len(san_out) >= 5

\* C22: for a readable local file and n > 0, tail_lines returns exactly the last
\* min(n, L) complete lines of the file, in file order: no fragment of a line that
\* begins before the bytes read, and never fewer than n lines when the file has n
C22_LastCompleteLines ==
  (tail_done /\ ~remote /\ tail_n > 0) =>
    tail_out = LastN(SplitLines(tail_bytes), tail_n)

\* the positions of load() after it has cleared the buffer
LoadPcs == {"ld_probe", "ld_docker", "ld_file", "ld_done"}

\* C23: when the container fetch fails load() appends one [docker] error line and
\* goes on to the file; when the file read fails it appends one [file] error line
\* instead of the lines; and whenever load() ends, by return or by exception, the
\* buffer is not empty
C23_LoadLeavesFeedback ==
  [][/\ (mpc = "ld_docker" /\ mpc' = "ld_file") =>
          lines' = DequeAppend(lines, Line("load_docker_error", 0, 0))
     /\ (mpc = "ld_file" /\ mpc' # mpc) =>
          /\ mpc' = "ld_done"
          /\ lines' \in {DequeExtend(lines, FileSnapshot(DEFAULT_TAIL)),
                         DequeAppend(lines, Line("load_file_error", 0, 0))}
     /\ (mpc \in LoadPcs /\ mpc' \notin LoadPcs) => Len(lines') > 0]_vars

\* the level word stands in the line as a whole word, in any case: the character
\* before it and the character after it are no word characters, or are missing
WholeWord(level, line) ==
  \E i \in 1..(Len(line) - Len(level) + 1) :
    /\ Lower(SubSeq(line, i, i + Len(level) - 1)) = Lower(level)
    /\ i = 1 \/ ~IsWordChar(line[i - 1])
    /\ i + Len(level) > Len(line) \/ ~IsWordChar(line[i + Len(level)])

\* C24: with a level other than ANY (and no search text), a line is returned
\* exactly when the level occurs in it as a case-insensitive whole word
C24_LevelIsWholeWord ==
  (fcalls > 0 /\ level_filter # ANY /\ text_filter = <<>>) =>
    \A k \in 1..Len(text_lines) :
      (\E j \in 1..Len(filtered) : filtered[j] = text_lines[k])
        <=> WholeWord(level_filter, text_lines[k])

\* a line with the level as a word is returned, one with the level inside a longer
\* word is not
C24_Witness ==
  /\ fcalls > 0 /\ level_filter # ANY /\ text_filter = <<>>
  /\ Len(text_lines) = 2 /\ Len(filtered) = 1
  /\ \E k \in 1..2 : /\ Contains(Lower(level_filter), Lower(text_lines[k]))
                       /\ ~WholeWord(level_filter, text_lines[k])

\* C25: filtered_lines returns the lines of the buffer that pass the level filter
\* and the text filter, in buffer order; with level ANY and no search text it
\* returns the whole buffer
C25_SubsequencePassingBoth ==
  fcalls > 0 =>
    /\ filtered = SelectSeq(text_lines, LAMBDA ln :
                     /\ level_filter = ANY \/ WholeWord(level_filter, ln)
                     /\ text_filter = <<>> \/ Contains(Lower(text_filter), Lower(ln)))
    /\ (level_filter = ANY /\ text_filter = <<>>) => filtered = text_lines

\* a line passes one filter only and is left out, another passes both
C25_Witness ==
  /\ fcalls > 0 /\ level_filter # ANY /\ text_filter # <<>>
  /\ Len(text_lines) = 2 /\ Len(filtered) = 1
  /\ \E k \in 1..2 : /\ WholeWord(level_filter, text_lines[k])
                       /\ ~Contains(Lower(text_filter), Lower(text_lines[k]))

\* C26: a call of filtered_lines changes neither the buffer nor the filters nor
\* the source nor the follow state, and a second call on the unchanged buffer
\* returns what the first one returned
C26_NoSideEffects ==
  [][fcalls' # fcalls =>
       /\ UNCHANGED <<text_lines, level_filter, text_filter, lines, svcVars>>
       /\ fcalls > 0 => filtered' = filtered]_vars

\* the second call has returned, and the first had left lines out
C26_Witness ==
  /\ fcalls = 2
  /\ filtered # <<>>
  /\ Len(filtered) < Len(text_lines)

\* C30: a container override made while follow is enabled ends with follow
\* enabled and a follow thread running for the service
C30_OverrideRestartsFollow ==
  [][(upc = "cm_load" /\ upc' = "run" /\ cm_was) =>
       /\ models'[active_key].follow_enabled
       /\ models'[active_key].follow_thread = "alive"]_vars

\* C31: stop_follow never raises, whatever the follow thread does meanwhile: no
\* step taken inside stop_follow ends in an exception
C31_StopFollowNeverRaises ==
  [][(mpc \in StopFollowPcs) => mpc' # "raised"]_vars

\* C32: whenever the UI thread is between two operations and follow_enabled is
\* true, the follow thread the model holds is alive
C32_FollowOnMeansSession ==
  (mpc = "idle" /\ follow_enabled) => (follow_thread # None /\ Alive(follow_thread))

\* C33: while a docker follow session streams, the source id start_follow
\* reported names the container the follow command was given
C33_SourceRefIsFollowed ==
  ("follow" \in applied) => StartFollowSourceId(preferred) = Prefixed(container)

\* C34: when reload_tail returns, follow is as it was when it was called: enabled
\* with a running follow thread if it was enabled, disabled with no thread started
\* if it was not
C34_ReloadKeepsFollow ==
  [][(upc = "rt_start" /\ upc' = "run") =>
       /\ models'[active_key].follow_enabled = u_was
       /\ (models'[active_key].follow_thread = "alive") = u_was]_vars

\* reload_tail has stopped a follow that was on, its join timed out, and the
\* restart is next
C34_Witness ==
  /\ upc = "rt_start" /\ u_was
  /\ ~models[active_key].follow_enabled
  /\ models[active_key].orphan

\* C35: for every n >= 0 and every output of the command, the container snapshot
\* and the remote file snapshot return the last n lines of the output, in order,
\* and no line when n = 0
C35_AtMostLastN ==
  snap_kind # "none" =>
    /\ Len(snap_out) <= tail_n
    /\ snap_out = LastN(SplitLines(cmd_out), tail_n)

\* C36: the lock is held only around a copy of the buffer or an append to it:
\* never while the filters go through the lines, never while a thread fetches or
\* waits for a line; so a follow thread that has a line finds the lock free or
\* held by a step that releases it
C36_CopyThenRelease ==
  /\ lock_owner = "ui" => ui_pc \in {"copy", "extend"}
  /\ lock_owner = "follow" => fw_pc = "append"
  /\ ui_pc \in {"scan", "ld_lock", "idle"} => lock_owner # "ui"

\* the follow thread appends a line while filtered_lines is going through its copy
C36_Witness ==
  /\ ui_pc = "scan" /\ ui_data # <<>>
  /\ fw_pc = "append" /\ lock_owner = "follow"

\* C37: the stream filter of the web front end lets through exactly the lines
\* filtered_lines returns for the same lines, level and search text
C37_WebFilterSameAsEngine ==
  (web_done /\ fcalls > 0) => web_sent = filtered

\* C38: when LOG_WEB_TOKEN is set, a request to /containers, /stream, /db/tables
\* or /db/table whose token is not LOG_WEB_TOKEN is answered 401 and starts
\* neither a docker command nor a database query
C38_TokenGuardsEveryEndpoint ==
  (TOKEN # "" /\ req_path \in ProtectedPaths /\ req_token # TOKEN) =>
    (resp_status = 401 /\ ~docker_ran /\ ~db_ran)

\* C39: once the client of a /stream request has disconnected, the handler
\* eventually returns and its docker logs process is no longer running
C39_DisconnectEndsStream ==
  (s_pc = "loop" /\ ~s_client) ~> (s_pc = "returned" /\ sproc # "running")

=============================================================================
